---- MODULE Spec2Model ----
(***************************************************************************)
(* Content-normalization and batch-translation pipeline of the Excel       *)
(* content processor: the optimized AI service (cleanContentForTranslation,*)
(* LRUCache, translateBatchStructured, cancelTranslation) and the hosting  *)
(* application's handleBulkTranslate / handleStopTranslation handlers.     *)
(*                                                                         *)
(* Strings are sequences of UTF-16 code units (naturals).  A JSON value of *)
(* an API response is a record [t, v] with t its JSON type.                *)
(***************************************************************************)
EXTENDS Integers, Sequences, FiniteSets, TLC

\* ------------------------------------------------------------------------
\* Bounds of the model.  BATCH_SIZE, TRUNCATE_AT, PREFIX_LEN and HOST_BATCH
\* stand for the source's 100, 1500, 20 and 20: the model keeps the code's
\* comparisons and arithmetic on them and scales the numbers down.
\* ------------------------------------------------------------------------
BATCH_SIZE == 2
TRUNCATE_AT == 6
PREFIX_LEN == 3
HOST_BATCH == 2
MaxItems == 3
MaxCap == 2
MaxKeys == 3
MaxRows == 2
MaxOps == 2
MaxTokens == 2
MaxRecords == 10
MaxLegacyItems == 9

\* contentCache = new LRUCache(1000)
CONTENT_CACHE_MAX == 1000

Min(a, b) == IF a < b THEN a ELSE b

\* ------------------------------------------------------------------------
\* Strings
\* ------------------------------------------------------------------------
Ord == ("a" :> 97) @@ ("b" :> 98) @@ ("c" :> 99) @@ ("d" :> 100) @@
       ("e" :> 101) @@ ("f" :> 102) @@ ("g" :> 103) @@ ("h" :> 104) @@
       ("l" :> 108) @@ ("m" :> 109) @@ ("n" :> 110) @@ ("o" :> 111) @@
       ("p" :> 112) @@ ("q" :> 113) @@ ("r" :> 114) @@ ("s" :> 115) @@ ("t" :> 116) @@
       ("u" :> 117) @@ ("x" :> 120) @@ ("y" :> 121) @@ ("T" :> 84) @@
       ("&" :> 38) @@ ("#" :> 35) @@ (";" :> 59) @@ ("<" :> 60) @@
       (">" :> 62) @@ (" " :> 32) @@ ("." :> 46) @@ ("\"" :> 34) @@
       ("'" :> 39) @@ ("0" :> 48) @@ ("1" :> 49) @@ ("2" :> 50) @@
       ("3" :> 51) @@ ("4" :> 52) @@ ("5" :> 53) @@ ("6" :> 54) @@
       ("7" :> 55) @@ ("8" :> 56) @@ ("9" :> 57)

Str(t) == [k \in 1..Len(t) |-> Ord[t[k]]]

\* JS \s (and String.prototype.trim) white space
IsSpace(c) == c \in {9, 10, 11, 12, 13, 32, 160, 5760, 8232, 8233, 8239, 8287, 12288, 65279}
                 \cup (8192..8202)

IsDigit(c) == c \in 48..57

\* s.replace(/pat/g, rep) for a literal pattern
RECURSIVE ReplaceAll(_, _, _)
ReplaceAll(s, pat, rep) ==
    IF Len(s) < Len(pat) THEN s
    ELSE IF SubSeq(s, 1, Len(pat)) = pat
         THEN rep \o ReplaceAll(SubSeq(s, Len(pat) + 1, Len(s)), pat, rep)
         ELSE <<s[1]>> \o ReplaceAll(Tail(s), pat, rep)

\* number of leading decimal digits of s
RECURSIVE DigitRun(_)
DigitRun(s) == IF s # <<>> /\ IsDigit(s[1]) THEN 1 + DigitRun(Tail(s)) ELSE 0

\* parseInt(digits, 10)
RECURSIVE ParseInt(_)
ParseInt(ds) == IF ds = <<>> THEN 0
                ELSE 10 * ParseInt(SubSeq(ds, 1, Len(ds) - 1)) + (ds[Len(ds)] - 48)

\* String.fromCharCode(n): ToUint16
FromCharCode(n) == n % 65536

\* .replace(/&#\d+;/g, m => String.fromCharCode(parseInt(m.slice(2, -1), 10)))
RECURSIVE DecodeNumeric(_)
DecodeNumeric(s) ==
    IF s = <<>> THEN s
    ELSE LET d == IF Len(s) >= 2 /\ s[1] = 38 /\ s[2] = 35
                  THEN DigitRun(SubSeq(s, 3, Len(s))) ELSE 0
         IN IF d > 0 /\ Len(s) >= d + 3 /\ s[d + 3] = 59
            THEN <<FromCharCode(ParseInt(SubSeq(s, 3, d + 2)))>>
                     \o DecodeNumeric(SubSeq(s, d + 4, Len(s)))
            ELSE <<s[1]>> \o DecodeNumeric(Tail(s))

\* index of the first '>' of s, 0 when there is none
RECURSIVE FirstGt(_, _)
FirstGt(s, k) == IF k > Len(s) THEN 0
                 ELSE IF s[k] = 62 THEN k ELSE FirstGt(s, k + 1)

\* .replace(/<[^>]*>/g, '')
RECURSIVE StripTags(_)
StripTags(s) ==
    IF s = <<>> THEN s
    ELSE IF s[1] = 60 /\ FirstGt(s, 2) > 0
         THEN StripTags(SubSeq(s, FirstGt(s, 2) + 1, Len(s)))
         ELSE <<s[1]>> \o StripTags(Tail(s))

\* .replace(/\s+/g, ' ')
RECURSIVE CollapseSpace(_)
CollapseSpace(s) ==
    IF s = <<>> THEN s
    ELSE IF IsSpace(s[1])
         THEN IF Len(s) >= 2 /\ IsSpace(s[2])
              THEN CollapseSpace(Tail(s))
              ELSE <<32>> \o CollapseSpace(Tail(s))
         ELSE <<s[1]>> \o CollapseSpace(Tail(s))

RECURSIVE TrimStart(_)
TrimStart(s) == IF s # <<>> /\ IsSpace(s[1]) THEN TrimStart(Tail(s)) ELSE s

RECURSIVE TrimEnd(_)
TrimEnd(s) == IF s # <<>> /\ IsSpace(s[Len(s)])
              THEN TrimEnd(SubSeq(s, 1, Len(s) - 1)) ELSE s

\* String.prototype.trim
Trim(s) == TrimEnd(TrimStart(s))

\* the replace chain of cleanContentForTranslation, without the cache
DecodeEntities(s) ==
    ReplaceAll(
      ReplaceAll(
        ReplaceAll(
          ReplaceAll(
            ReplaceAll(
              ReplaceAll(DecodeNumeric(s),
                         Str(<<"&", "l", "t", ";">>), Str(<<"<">>)),
                       Str(<<"&", "g", "t", ";">>), Str(<<">">>)),
                     Str(<<"&", "a", "m", "p", ";">>), Str(<<"&">>)),
                   Str(<<"&", "q", "u", "o", "t", ";">>), Str(<<"\"">>)),
                 Str(<<"&", "n", "b", "s", "p", ";">>), Str(<<" ">>)),
               Str(<<"&", "a", "p", "o", "s", ";">>), Str(<<"'">>))

CleanUncached(content) == Trim(CollapseSpace(StripTags(DecodeEntities(content))))

\* ------------------------------------------------------------------------
\* processCell of the Excel parser
\* ------------------------------------------------------------------------
\* /<[^>]*>/.test(s)
HasTag(s) == \E i \in 1..Len(s) : s[i] = 60 /\ FirstGt(s, i + 1) > 0

\* [a-zA-Z0-9#]
IsEntityChar(c) == c \in (97..122) \cup (65..90) \cup (48..57) \cup {35}

\* number of leading [a-zA-Z0-9#] characters of s
RECURSIVE EntityRun(_)
EntityRun(s) == IF s # <<>> /\ IsEntityChar(s[1]) THEN 1 + EntityRun(Tail(s)) ELSE 0

\* /&[a-zA-Z0-9#]+;/.test(s)
HasEntity(s) ==
    \E i \in 1..Len(s) :
        /\ s[i] = 38
        /\ EntityRun(SubSeq(s, i + 1, Len(s))) >= 1
        /\ i + 1 + EntityRun(SubSeq(s, i + 1, Len(s))) <= Len(s)
        /\ s[i + 1 + EntityRun(SubSeq(s, i + 1, Len(s)))] = 59

\* [0-9A-Fa-f]
IsHexDigit(c) == c \in (48..57) \cup (65..70) \cup (97..102)

HexValue(c) == IF c \in 48..57 THEN c - 48
               ELSE IF c \in 65..70 THEN c - 55 ELSE c - 87

RECURSIVE HexRun(_)
HexRun(s) == IF s # <<>> /\ IsHexDigit(s[1]) THEN 1 + HexRun(Tail(s)) ELSE 0

\* parseInt(hex, 16)
RECURSIVE ParseHex(_)
ParseHex(ds) == IF ds = <<>> THEN 0
                ELSE 16 * ParseHex(SubSeq(ds, 1, Len(ds) - 1)) + HexValue(ds[Len(ds)])

\* number of hex digits of a leading "&#x...;" of s, 0 when s has none
HexEntityLen(s) ==
    IF Len(s) >= 5 /\ s[1] = 38 /\ s[2] = 35 /\ s[3] = 120
          /\ HexRun(SubSeq(s, 4, Len(s))) > 0
          /\ 4 + HexRun(SubSeq(s, 4, Len(s))) <= Len(s)
          /\ s[4 + HexRun(SubSeq(s, 4, Len(s)))] = 59
    THEN HexRun(SubSeq(s, 4, Len(s)))
    ELSE 0

\* .replace(/&#x([0-9A-Fa-f]+);/g, (m, hex) => String.fromCharCode(parseInt(hex, 16)))
RECURSIVE DecodeHex(_)
DecodeHex(s) ==
    IF s = <<>> THEN s
    ELSE IF HexEntityLen(s) > 0
         THEN <<FromCharCode(ParseHex(SubSeq(s, 4, 3 + HexEntityLen(s))))>>
                  \o DecodeHex(SubSeq(s, 5 + HexEntityLen(s), Len(s)))
         ELSE <<s[1]>> \o DecodeHex(Tail(s))

\* decodeHTMLEntities: the same replaces in the same order as
\* cleanContentForTranslation, then the hexadecimal references
decodeHTMLEntities(text) == DecodeHex(DecodeEntities(text))

\* removeHTMLTags
removeHTMLTags(text) == StripTags(text)

\* processCell(cellValue) for a string cell value: the `cleaned` text
CleanedOf(original) ==
    Trim(CollapseSpace(
        IF HasTag(original)
        THEN removeHTMLTags(IF HasEntity(original) THEN decodeHTMLEntities(original)
                            ELSE original)
        ELSE IF HasEntity(original) THEN decodeHTMLEntities(original)
        ELSE original))

\* processCell(cellValue, rowIndex, colIndex)
processCell(cellValue) ==
    IF cellValue = <<>>
    THEN [original |-> <<>>, cleaned |-> <<>>, hasHtml |-> FALSE,
          hasEntities |-> FALSE, isEmpty |-> TRUE]
    ELSE [original |-> cellValue,
          cleaned |-> CleanedOf(cellValue),
          hasHtml |-> HasTag(cellValue),
          hasEntities |-> HasEntity(cellValue),
          isEmpty |-> (CleanedOf(cellValue) = <<>> \/ Trim(CleanedOf(cellValue)) = <<>>)]

\* ------------------------------------------------------------------------
\* LRUCache: a Map in insertion order, modelled as a sequence of
\* [key, value] entries, oldest first.
\* ------------------------------------------------------------------------
CacheHas(cache, key) == \E k \in 1..Len(cache) : cache[k].key = key

CacheIndex(cache, key) == CHOOSE k \in 1..Len(cache) : cache[k].key = key

CacheDelete(cache, key) ==
    IF CacheHas(cache, key)
    THEN LET p == CacheIndex(cache, key)
         IN SubSeq(cache, 1, p - 1) \o SubSeq(cache, p + 1, Len(cache))
    ELSE cache

\* LRUCache.get without the delete and re-insert of the entry
LRUGet_NoTouch(cache, key) ==
    IF CacheHas(cache, key)
    THEN [found |-> TRUE, value |-> cache[CacheIndex(cache, key)].value, cache |-> cache]
    ELSE [found |-> FALSE, value |-> <<>>, cache |-> cache]

\* LRUCache.get: [value, found, cache]
LRUGet(cache, key) ==
    IF CacheHas(cache, key)
    THEN LET e == cache[CacheIndex(cache, key)]
         IN [found |-> TRUE, value |-> e.value,
             cache |-> Append(CacheDelete(cache, key), e)]
    ELSE [found |-> FALSE, value |-> <<>>, cache |-> cache]

\* LRUCache.set without the eviction at capacity
LRUSet_NoEvict(cache, maxSize, key, value) ==
    Append(CacheDelete(cache, key), [key |-> key, value |-> value])

\* LRUCache.set
LRUSet(cache, maxSize, key, value) ==
    LET c1 == IF CacheHas(cache, key) THEN CacheDelete(cache, key)
              ELSE IF Len(cache) >= maxSize THEN Tail(cache)
              ELSE cache
    IN Append(c1, [key |-> key, value |-> value])

\* LRUCache.clear
LRUClear(cache) == <<>>

\* `clean_${content.length}_${content.slice(0, 20)}`
CleanCacheKey(content) == <<Len(content), SubSeq(content, 1, Min(PREFIX_LEN, Len(content)))>>

\* cleanContentForTranslation: [value, cache]
cleanContentForTranslation(content, cache) ==
    IF content = <<>> THEN [value |-> <<>>, cache |-> cache]
    ELSE LET got == LRUGet(cache, CleanCacheKey(content))
         IN IF got.found /\ got.value # <<>>
            THEN [value |-> got.value, cache |-> got.cache]
            ELSE LET cleaned == CleanUncached(content)
                 IN [value |-> cleaned,
                     cache |-> LRUSet(got.cache, CONTENT_CACHE_MAX,
                                      CleanCacheKey(content), cleaned)]

\* cleaned.length > 1500 ? cleaned.substring(0, 1500) + '...' : cleaned
Truncate(cleaned) ==
    IF Len(cleaned) > TRUNCATE_AT
    THEN SubSeq(cleaned, 1, TRUNCATE_AT) \o Str(<<".", ".", ".">>)
    ELSE cleaned

\* contentArray.map(content => cleanContentForTranslation(content)), the
\* cache threaded through the calls in index order: [values, cache]
RECURSIVE CleanAll(_, _)
CleanAll(arr, cache) ==
    IF arr = <<>> THEN [values |-> <<>>, cache |-> cache]
    ELSE LET h == cleanContentForTranslation(arr[1], cache)
             r == CleanAll(Tail(arr), h.cache)
         IN [values |-> <<h.value>> \o r.values, cache |-> r.cache]

\* ------------------------------------------------------------------------
\* State
\* ------------------------------------------------------------------------
MaxJobs == 3

CallIds == 1..MaxJobs
CtlIds == 1..MaxJobs

VARIABLES
    apiKeyOk,               \* OPENAI_API_KEY is set and is not the placeholder
    translationCancelled,   \* module flag of the AI service
    contentCache,           \* module contentCache (LRUCache)
    aborted,                \* aborted[k]: AbortController k's signal.aborted
    calls,                  \* calls[c]: one invocation of translateBatchStructured
    hostKind,               \* "single": handleBulkTranslate calls the service once;
                            \* "loop": it calls it once per batch; "none": no host
    excelData,              \* React state: the grid
    isLoading,              \* React state
    isTranslationStopped,   \* React state
    sessionId,              \* React state, 0 for null
    ctlCurrent,             \* translationAbortController.current, 0 for null
    jobs,                   \* jobs[j]: one invocation of handleBulkTranslate
    stops,                  \* invocations of handleStopTranslation awaiting stopSession
    lruCache,               \* an LRUCache instance: maxSize, cache, and its use so far
    applied                 \* the last application of a pure function: inputs and result

hostVars == <<hostKind, excelData, isLoading, isTranslationStopped, sessionId,
              ctlCurrent, jobs, stops>>
libVars == <<lruCache, applied>>
vars == <<apiKeyOk, translationCancelled, contentCache, aborted, calls,
          hostKind, excelData, isLoading, isTranslationStopped, sessionId,
          ctlCurrent, jobs, stops, lruCache, applied>>

\* no LRUCache instance under study, no function applied
LibIdle ==
    /\ lruCache = [maxSize |-> 0, cache |-> <<>>, used |-> <<>>, last |-> [op |-> "none"]]
    /\ applied = [op |-> "none"]

\* ------------------------------------------------------------------------
\* API responses
\* ------------------------------------------------------------------------
JNull == [t |-> "null", v |-> <<>>]
JNum(n) == [t |-> "number", v |-> <<n>>]
JStr(s) == [t |-> "string", v |-> s]

\* The text the service returns for slot j of request r, when it returns a
\* text there: "T<r><j>", so that an output entry names the slot it came from.
Tr(r, j) == Str(<<"T">>) \o <<48 + r, 48 + j>>

SlotKinds == {"null", "blank", "number", "text"}

SlotValue(kind, r, j) ==
    CASE kind = "null" -> JNull
      [] kind = "blank" -> JStr(Str(<<" ", " ">>))
      [] kind = "number" -> JNum(42)
      [] kind = "text" -> JStr(Tr(r, j))

NoResponse == [kind |-> "none", translations |-> <<>>]
ErrorResponse == [kind |-> "error", translations |-> <<>>]
UnparsableResponse == [kind |-> "unparsable", translations |-> <<>>]

\* the responses to request r for a batch of m items: a rejected request, a
\* body JSON.parse rejects, a body holding an array of 0..m values of any
\* kind, or one holding m+1 texts
Outcomes(r, m) ==
    {ErrorResponse, UnparsableResponse} \cup
    UNION { { [kind |-> "json",
               translations |-> [j \in 1..n |-> SlotValue(ks[j], r, j)]]
              : ks \in [1..n -> SlotKinds] } : n \in 0..m } \cup
    { [kind |-> "json",
       translations |-> [j \in 1..(m + 1) |-> SlotValue("text", r, j)]] }

\* JS truthiness of a JSON value
Truthy(x) == \/ x.t = "string" /\ x.v # <<>>
             \/ x.t = "number" /\ x.v # <<0>>

\* translations[j] && translations[j].trim() raises TypeError on a truthy
\* value that is no string
ReconcileThrows(batch, translations) ==
    \E j \in 1..Len(batch) :
        j <= Len(translations) /\ Truthy(translations[j]) /\ translations[j].t # "string"

\* Reconcile without the padding of missing slots
Reconcile_NoPad(batch, translations) ==
    [j \in 1..Min(Len(batch), Len(translations)) |->
        IF Truthy(translations[j]) /\ Trim(translations[j].v) # <<>>
        THEN translations[j].v
        ELSE batch[j]]

\* paddedTranslations
Reconcile(batch, translations) ==
    [j \in 1..Len(batch) |->
        IF j <= Len(translations) /\ Truthy(translations[j])
              /\ Trim(translations[j].v) # <<>>
        THEN translations[j].v
        ELSE batch[j]]

\* ------------------------------------------------------------------------
\* translateBatchStructured
\* ------------------------------------------------------------------------
NoError == [name |-> "", message |-> ""]

\* new Error('Translation cancelled by user')
CancelledError == [name |-> "Error", message |-> "Translation cancelled by user"]

IdleCall ==
    [pc |-> "idle", contentArray |-> <<>>, signal |-> 0, cleanedContent |-> <<>>,
     i |-> 0, allTranslations |-> <<>>, req |-> "none", err |-> NoError,
     \* history: the `cleaned` locals, the requests dispatched, the last
     \* response, cancellation requested while running, the batches that erred
     cleaned |-> <<>>, dispatched |-> 0, lastResp |-> NoResponse,
     cancelReq |-> FALSE, failed |-> {},
     \* history: the batch of every request dispatched, with the index of
     \* its first item
     sent |-> <<>>]

SignalAborted(c, ab) == c.signal # 0 /\ ab[c.signal]

\* batch = cleanedContent.slice(i, i + BATCH_SIZE + 1)
BatchOf_Overlap(c) ==
    SubSeq(c.cleanedContent, c.i + 1, Min(c.i + BATCH_SIZE + 1, Len(c.cleanedContent)))

\* batch = cleanedContent.slice(i, i + BATCH_SIZE)
BatchOf(c) == SubSeq(c.cleanedContent, c.i + 1, Min(c.i + BATCH_SIZE, Len(c.cleanedContent)))

\* Math.floor(i / BATCH_SIZE) + 1
BatchNo(c) == (c.i \div BATCH_SIZE) + 1

\* the loop head of a loop that does not await its requests: the requests of
\* all remaining batches are dispatched at once
LoopHead_NoAwait(c, i, flag, ab) ==
    IF i >= Len(c.cleanedContent)
    THEN [c EXCEPT !.pc = "returned", !.i = i, !.req = "none"]
    ELSE IF SignalAborted(c, ab) \/ flag
    THEN [c EXCEPT !.pc = "thrown", !.i = i, !.req = "none", !.err = CancelledError]
    ELSE [c EXCEPT !.pc = "pending", !.i = i, !.req = "inflight",
                   !.dispatched = (Len(c.cleanedContent) + BATCH_SIZE - 1) \div BATCH_SIZE]

\* the head of the for loop at index i: leave the loop and return, raise the
\* cancellation error, or dispatch the request of the batch starting at i
LoopHead(c, i, flag, ab) ==
    IF i >= Len(c.cleanedContent)
    THEN [c EXCEPT !.pc = "returned", !.i = i, !.req = "none"]
    ELSE IF SignalAborted(c, ab) \/ flag
    THEN [c EXCEPT !.pc = "thrown", !.i = i, !.req = "none", !.err = CancelledError]
    ELSE [c EXCEPT !.pc = "pending", !.i = i, !.req = "inflight",
                   !.dispatched = @ + 1,
                   !.sent = Append(@, [from |-> i, batch |-> BatchOf([c EXCEPT !.i = i])])]

\* the entries a batch contributes once its request has settled
BatchEntries(batch, resp, flag, sigAborted) ==
    IF resp.kind = "error" THEN batch
    ELSE IF flag \/ sigAborted THEN batch
    ELSE IF resp.kind = "unparsable" THEN batch
    ELSE IF ReconcileThrows(batch, resp.translations) THEN batch
    ELSE Reconcile(batch, resp.translations)

\* AfterResponse with no catch around the request: an error ends the call
AfterResponse_AbortOnError(c, resp, flag, ab) ==
    LET entries == BatchEntries(BatchOf(c), resp, flag, SignalAborted(c, ab))
        c1 == [c EXCEPT !.allTranslations = @ \o entries,
                        !.lastResp = resp,
                        !.failed = IF resp.kind = "error" THEN @ \cup {BatchNo(c)} ELSE @]
    IN IF resp.kind = "error"
       THEN [c1 EXCEPT !.pc = "thrown", !.req = "none",
                       !.err = [name |-> "AxiosError", message |-> "Network Error"]]
       ELSE LoopHead(c1, c.i + BATCH_SIZE, flag, ab)

\* AfterResponse with a break in the catch block: the batches after a failed
\* one are not sent
AfterResponse_BreakOnError(c, resp, flag, ab) ==
    LET entries == BatchEntries(BatchOf(c), resp, flag, SignalAborted(c, ab))
        c1 == [c EXCEPT !.allTranslations = @ \o entries,
                        !.lastResp = resp,
                        !.failed = IF resp.kind = "error" THEN @ \cup {BatchNo(c)} ELSE @]
    IN IF resp.kind = "error"
       THEN [c1 EXCEPT !.pc = "returned", !.req = "none", !.i = c.i + BATCH_SIZE]
       ELSE LoopHead(c1, c.i + BATCH_SIZE, flag, ab)

\* from the settled request of the current batch to the next suspension
AfterResponse(c, resp, flag, ab) ==
    LET entries == BatchEntries(BatchOf(c), resp, flag, SignalAborted(c, ab))
        c1 == [c EXCEPT !.allTranslations = @ \o entries,
                        !.lastResp = resp,
                        !.failed = IF resp.kind = "error" THEN @ \cup {BatchNo(c)} ELSE @]
    IN LoopHead(c1, c.i + BATCH_SIZE, flag, ab)

\* from the call to the first suspension: [call, cache]
StartCall(arr, sig, keyOk, cache, ab) ==
    LET cl == CleanAll(arr, cache)
        c0 == [IdleCall EXCEPT !.contentArray = arr, !.signal = sig,
                               !.cleaned = cl.values]
    IN IF ~keyOk
       THEN [call |-> [c0 EXCEPT !.pc = "returned", !.allTranslations = cl.values],
             cache |-> cl.cache]
       ELSE [call |-> LoopHead([c0 EXCEPT !.cleanedContent =
                                     [k \in 1..Len(arr) |-> Truncate(cl.values[k])]],
                               0, FALSE, ab),
             cache |-> cl.cache]

\* the effect of controller.abort() on the calls: axios rejects the request
\* in flight under that signal
AbortCalls(cs, k) ==
    [c \in CallIds |->
        IF cs[c].pc = "pending" /\ cs[c].signal = k
        THEN [cs[c] EXCEPT !.req = "aborted", !.cancelReq = TRUE]
        ELSE cs[c]]

\* the calls that are running when cancelTranslation() sets the flag
CancelCalls(cs) ==
    [c \in CallIds |->
        IF cs[c].pc = "pending" THEN [cs[c] EXCEPT !.cancelReq = TRUE] ELSE cs[c]]

\* ------------------------------------------------------------------------
\* The grid and the host's pure steps
\* ------------------------------------------------------------------------
\* a cell as processCell leaves a plain text (no tag, no entity)
Cell(text) ==
    [original |-> text, cleaned |-> text, hasHtml |-> FALSE, hasEntities |-> FALSE,
     isEmpty |-> Trim(text) = <<>>]

\* "abc", "abd", "abe", ...
Word(k) == Str(<<"a", "b">>) \o <<98 + k>>

GridCols == 2 * BATCH_SIZE + 1

\* the grid of the loaded file: a row of distinct texts (three service
\* batches), and a row with a duplicate, an empty cell and a numeral
InitialGrid ==
    << [c \in 1..GridCols |-> Cell(Word(c))],
       [c \in 1..GridCols |->
           IF c = 1 THEN Cell(Word(1))
           ELSE IF c = 3 THEN Cell(Str(<<"1", "2">>))
           ELSE Cell(<<>>)] >>

RECURSIVE Flatten(_)
Flatten(grid) == IF grid = <<>> THEN <<>> ELSE grid[1] \o Flatten(Tail(grid))

IsLetter(c) == c \in (65..90) \cup (97..122)

\* the content filter of handleBulkTranslate
NeedsTranslation(content) ==
    /\ Len(content) > 2
    /\ ~(\A k \in 1..Len(content) : IsDigit(content[k]))
    /\ ~(Len(content) \in 1..2 /\ \A k \in 1..Len(content) : IsLetter(content[k]))
    /\ content \notin { Str(<<"0">>), Str(<<"1">>), Str(<<"t", "r", "u", "e">>),
                        Str(<<"f", "a", "l", "s", "e">>), Str(<<"y", "e", "s">>),
                        Str(<<"n", "o">>) }

InSeq(x, seq) == \E k \in 1..Len(seq) : seq[k] = x

\* contentToTranslate (a Set, in insertion order) over the cells in row-major
\* order; filtered is TRUE for the host that applies the content filter
RECURSIVE CollectFrom(_, _, _)
CollectFrom(cells, filtered, acc) ==
    IF cells = <<>> THEN acc
    ELSE LET content == Trim(cells[1].cleaned)
             take == /\ content # <<>>
                     /\ (filtered => NeedsTranslation(content))
                     /\ ~InSeq(content, acc)
         IN CollectFrom(Tail(cells), filtered, IF take THEN Append(acc, content) ELSE acc)

\* uniqueContent collected without the content filter, whatever the host
CollectUnique_NoFilter(grid, filtered) == CollectFrom(Flatten(grid), FALSE, <<>>)

\* uniqueContent
CollectUnique(grid, filtered) == CollectFrom(Flatten(grid), filtered, <<>>)

\* translationMap.get(key) || fallback, the map built from uniqueContent and
\* allTranslations (allTranslations[index] || content)
MapGetOr(unique, translations, key, fallback) ==
    LET hits == {k \in 1..Len(unique) : unique[k] = key}
    IN IF hits = {} THEN fallback
       ELSE LET k == CHOOSE x \in hits : \A y \in hits : y <= x
                v == IF k <= Len(translations) /\ translations[k] # <<>>
                     THEN translations[k] ELSE key
            IN IF v = <<>> THEN fallback ELSE v

\* translatedData with only the cleaned text of a cell replaced
ApplyTranslations_CleanedOnly(data, unique, translations) ==
    [r \in 1..Len(data) |->
        [c \in 1..Len(data[r]) |->
            IF data[r][c].cleaned # <<>> /\ Trim(data[r][c].cleaned) # <<>>
            THEN [data[r][c] EXCEPT !.cleaned = MapGetOr(unique, translations,
                                                         Trim(@), @)]
            ELSE data[r][c]]]

\* translatedData
ApplyTranslations(data, unique, translations) ==
    [r \in 1..Len(data) |->
        [c \in 1..Len(data[r]) |->
            LET cell == data[r][c]
            IN IF cell.cleaned # <<>> /\ Trim(cell.cleaned) # <<>>
               THEN LET translated == MapGetOr(unique, translations,
                                               Trim(cell.cleaned), cell.cleaned)
                    IN [cell EXCEPT !.cleaned = translated, !.original = translated]
               ELSE cell]]

\* ------------------------------------------------------------------------
\* handleBulkTranslate / handleStopTranslation
\* ------------------------------------------------------------------------
JobIds == 1..MaxJobs

NoJob ==
    [pc |-> "none",
     \* the values the handler's closure captured when it was invoked
     cData |-> <<>>, cStopped |-> FALSE, cSession |-> 0,
     uniqueContent |-> <<>>, allTranslations |-> <<>>, batchIndex |-> 0,
     after |-> "", caught |-> NoError, toast |-> "none",
     \* history: Stop was clicked while the job ran; requests dispatched;
     \* a /api/session/stop request named the session this job started
     cancelled |-> FALSE, requests |-> 0, stopSent |-> FALSE]

HostStateInit ==
    /\ excelData = InitialGrid
    /\ isLoading = FALSE
    /\ isTranslationStopped = FALSE
    /\ sessionId = 0
    /\ ctlCurrent = 0
    /\ jobs = [j \in JobIds |-> NoJob]
    /\ stops = 0

\* the whole state as one record, so that a handler is a function on it
World ==
    [apiKeyOk |-> apiKeyOk, translationCancelled |-> translationCancelled,
     contentCache |-> contentCache, aborted |-> aborted, calls |-> calls,
     hostKind |-> hostKind, excelData |-> excelData, isLoading |-> isLoading,
     isTranslationStopped |-> isTranslationStopped, sessionId |-> sessionId,
     ctlCurrent |-> ctlCurrent, jobs |-> jobs, stops |-> stops]

Become(w) ==
    \E v \in {w} :
        /\ apiKeyOk' = v.apiKeyOk
        /\ translationCancelled' = v.translationCancelled
        /\ contentCache' = v.contentCache
        /\ aborted' = v.aborted
        /\ calls' = v.calls
        /\ hostKind' = v.hostKind
        /\ excelData' = v.excelData
        /\ isLoading' = v.isLoading
        /\ isTranslationStopped' = v.isTranslationStopped
        /\ sessionId' = v.sessionId
        /\ ctlCurrent' = v.ctlCurrent
        /\ jobs' = v.jobs
        /\ stops' = v.stops
        /\ UNCHANGED libVars

\* the element of a singleton; { F(x) : x \in {v} } evaluates v once
TheOne(S) == CHOOSE y \in S : TRUE

InFlight(job) == job.pc \notin {"none", "done"}

\* TypeError: translationAbortController.current is null
NullRefError == [name |-> "TypeError", message |-> "Cannot read properties of null"]

\* if (error.name === 'AbortError') ... else ...
ToastFor(err) == IF err.name = "AbortError" THEN "cancelled" ELSE "failed"

\* finally { setIsLoading(false); translationAbortController.current = null }
Finally(w) == [w EXCEPT !.isLoading = FALSE, !.ctlCurrent = 0]

\* the handler leaves through its finally block with the given toast
EndJob(w, j, toast) ==
    Finally([w EXCEPT !.jobs[j].pc = "done", !.jobs[j].toast = toast])

\* await stopSession() inside handleBulkTranslate: the closure's sessionId
\* decides whether a request is sent
AwaitsStopSession(w, j) == w.hostKind = "single" /\ w.jobs[j].cSession # 0

\* the handler reaches `await stopSession()` on the path `after`, and goes on
\* to its toast and finally block if stopSession returns at once
ToStopSession(w, j, after, toast) ==
    IF AwaitsStopSession(w, j)
    THEN [w EXCEPT !.jobs[j].pc = "stopping", !.jobs[j].after = after,
                   !.jobs[w.jobs[j].cSession].stopSent = TRUE]
    ELSE EndJob(w, j, toast)

\* catch (error) { await stopSession(); toast ... }
HostCatch(w, j, err) ==
    ToStopSession([w EXCEPT !.jobs[j].caught = err], j, "catch", ToastFor(err))

\* translationMap, translatedData, setExcelData, await stopSession(), success
HostApply(w, j, translations) ==
    IF w.jobs[j].cStopped THEN EndJob(w, j, "stopped")
    ELSE ToStopSession(
            [w EXCEPT !.excelData = ApplyTranslations(w.jobs[j].cData,
                                                      w.jobs[j].uniqueContent,
                                                      translations)],
            j, "success", "success")

\* Math.ceil(uniqueContent.length / batchSize)
TotalBatches(job) == (Len(job.uniqueContent) + HOST_BATCH - 1) \div HOST_BATCH

\* uniqueContent.slice(startIndex, endIndex) of batch b (0-based)
HostBatch(job, b) ==
    SubSeq(job.uniqueContent, b * HOST_BATCH + 1,
           Min(b * HOST_BATCH + HOST_BATCH, Len(job.uniqueContent)))

\* the loop host after a batch call returned: allTranslations.push(...)
\* and the delay before the next batch, or the end of the loop
AfterBatch(w, j) ==
    IF w.jobs[j].batchIndex < TotalBatches(w.jobs[j]) - 1
    THEN [w EXCEPT !.jobs[j].pc = "delay"]
    ELSE [w EXCEPT !.jobs[j].pc = "apply"]

\* the handler resumes after its awaited translateBatchStructured settled
AfterCall(w, j) ==
    IF w.calls[j].pc = "thrown" THEN [w EXCEPT !.jobs[j].pc = "catch",
                                               !.jobs[j].caught = w.calls[j].err]
    ELSE IF w.hostKind = "single"
    THEN [w EXCEPT !.jobs[j].pc = "apply",
                   !.jobs[j].allTranslations = w.calls[j].allTranslations]
    ELSE AfterBatch([w EXCEPT !.jobs[j].allTranslations = @ \o w.calls[j].allTranslations], j)

\* the handler after a step of its call: still awaiting, or resumed
Resume(w, j) ==
    IF w.calls[j].pc = "pending" THEN [w EXCEPT !.jobs[j].pc = "call"]
    ELSE AfterCall(w, j)

\* await translateBatchStructured(arr, targetLanguage,
\*                                translationAbortController.current.signal)
HostCall(w, j, arr) ==
    IF w.ctlCurrent = 0
    THEN [w EXCEPT !.jobs[j].pc = "catch", !.jobs[j].caught = NullRefError]
    ELSE TheOne({ Resume([w EXCEPT !.calls[j] = st.call,
                                   !.contentCache = st.cache,
                                   !.translationCancelled = FALSE,
                                   !.jobs[j].requests = @ + st.call.dispatched], j) :
                  st \in { StartCall(arr, w.ctlCurrent, w.apiKeyOk, w.contentCache,
                                     w.aborted) } })

\* the handler from the end of its awaits to its next suspension
Conclude(w, j) ==
    IF w.jobs[j].pc = "catch" THEN HostCatch(w, j, w.jobs[j].caught)
    ELSE IF w.jobs[j].pc = "apply" THEN HostApply(w, j, w.jobs[j].allTranslations)
    ELSE w

\* the request of call j settles with resp, and the handler resumes if the
\* call settled
HostSettle(w, j, resp) ==
    TheOne({ Resume([w EXCEPT !.calls[j] = cn,
                              !.jobs[j].requests = @ + (cn.dispatched - w.calls[j].dispatched)],
                    j) :
             cn \in { AfterResponse(w.calls[j], resp, w.translationCancelled, w.aborted) } })

\* translationAbortController.current.abort(), if there is a controller
AbortCurrent(w) ==
    IF w.ctlCurrent = 0 THEN w
    ELSE [w EXCEPT !.aborted[w.ctlCurrent] = TRUE,
                   !.calls = AbortCalls(w.calls, w.ctlCurrent)]

\* handleBulkTranslate up to its try block: the controller of the previous
\* job is aborted and replaced, the flags are reset; job j captures the
\* state its closure sees
EnterJob(w, j) ==
    [AbortCurrent(w) EXCEPT
        !.ctlCurrent = j,
        !.isLoading = TRUE,
        !.isTranslationStopped = FALSE,
        !.translationCancelled = FALSE,
        !.jobs[j] = [NoJob EXCEPT !.pc = "entered",
                                  !.cData = w.excelData,
                                  !.cStopped = w.isTranslationStopped,
                                  !.cSession = w.sessionId]]

\* the next call of the handler: the whole of uniqueContent, or batch b of it
NextCall(w, j, b) ==
    IF w.jobs[j].cStopped THEN [w EXCEPT !.jobs[j].pc = "stopped"]
    ELSE IF w.hostKind = "single" THEN HostCall(w, j, w.jobs[j].uniqueContent)
    ELSE IF TotalBatches(w.jobs[j]) = 0 THEN [w EXCEPT !.jobs[j].pc = "apply"]
    ELSE HostCall([w EXCEPT !.jobs[j].batchIndex = b], j, HostBatch(w.jobs[j], b))

\* the try block up to the first call: contentToTranslate and uniqueContent
Collect(w, j) ==
    [w EXCEPT !.jobs[j].uniqueContent =
                  CollectUnique(w.jobs[j].cData, w.hostKind = "single")]

\* handleStopTranslation from the click to its first suspension
StopJob(w) ==
    AbortCurrent(
        [w EXCEPT !.isTranslationStopped = TRUE,
                  !.isLoading = FALSE,
                  !.jobs = [j \in JobIds |->
                              IF InFlight(w.jobs[j])
                              THEN [w.jobs[j] EXCEPT !.cancelled = TRUE]
                              ELSE w.jobs[j]]])

\* ------------------------------------------------------------------------
\* Inputs
\* ------------------------------------------------------------------------
Contents == { Str(<<"x", "&", "a", "m", "p", ";", "y">>),
              Str(<<"a", "b", "c", "d", "e", "f", "g", "h">>) }

ContentArrays == UNION { [1..n -> Contents] : n \in 0..MaxItems }

\* a rejected axios promise resumes its caller before any other event
MicrotaskPending == \E c \in CallIds : calls[c].req = "aborted"

\* ------------------------------------------------------------------------
\* The service under a single caller
\* ------------------------------------------------------------------------
ServiceInit ==
    /\ apiKeyOk \in BOOLEAN
    /\ translationCancelled = FALSE
    /\ contentCache = <<>>
    /\ aborted = [k \in CtlIds |-> FALSE]
    /\ calls = [c \in CallIds |-> IdleCall]

Init ==
    /\ ServiceInit
    /\ hostKind = "none"
    /\ HostStateInit
    /\ LibIdle

\* a caller invokes translateBatchStructured(arr, lang, signal)
Invoke(arr, sig) ==
    /\ calls[1].pc = "idle"
    /\ LET st == StartCall(arr, sig, apiKeyOk, contentCache, aborted)
       IN /\ calls' = [calls EXCEPT ![1] = st.call]
          /\ contentCache' = st.cache
    /\ translationCancelled' = FALSE
    /\ UNCHANGED <<apiKeyOk, aborted>>
    /\ UNCHANGED hostVars
    /\ UNCHANGED libVars

\* cancelTranslation()
CancelTranslation ==
    /\ ~translationCancelled
    /\ translationCancelled' = TRUE
    /\ calls' = CancelCalls(calls)
    /\ UNCHANGED <<apiKeyOk, contentCache, aborted>>
    /\ UNCHANGED hostVars
    /\ UNCHANGED libVars

\* the owner of AbortController k calls abort()
Abort(k) ==
    /\ ~aborted[k]
    /\ aborted' = [aborted EXCEPT ![k] = TRUE]
    /\ calls' = AbortCalls(calls, k)
    /\ UNCHANGED <<apiKeyOk, translationCancelled, contentCache>>
    /\ UNCHANGED hostVars
    /\ UNCHANGED libVars

\* the request in flight of call c settles with response resp
Respond(c, resp) ==
    /\ ~MicrotaskPending
    /\ calls[c].pc = "pending" /\ calls[c].req = "inflight"
    /\ calls' = [calls EXCEPT ![c] = AfterResponse(calls[c], resp, translationCancelled, aborted)]
    /\ UNCHANGED <<apiKeyOk, translationCancelled, contentCache, aborted>>
    /\ UNCHANGED hostVars
    /\ UNCHANGED libVars

\* the aborted request of call c rejects
AbortedContinue(c) ==
    /\ calls[c].pc = "pending" /\ calls[c].req = "aborted"
    /\ calls' = [calls EXCEPT ![c] = AfterResponse(calls[c], ErrorResponse, translationCancelled, aborted)]
    /\ UNCHANGED <<apiKeyOk, translationCancelled, contentCache, aborted>>
    /\ UNCHANGED hostVars
    /\ UNCHANGED libVars

\* the request in flight of call c settles with some response
RespondAny(c) ==
    \E resp \in Outcomes(BatchNo(calls[c]), Len(BatchOf(calls[c]))) : Respond(c, resp)

InvokeAny == \E arr \in ContentArrays, sig \in {0, 1} : Invoke(arr, sig)

Next ==
    \/ InvokeAny
    \/ CancelTranslation
    \/ Abort(1)
    \/ RespondAny(1)
    \/ AbortedContinue(1)

Spec == Init /\ [][Next]_vars

\* the service with every request eventually settled (no timeout in the core;
\* the transport resolves or rejects each request)
LiveSpec ==
    /\ Spec
    /\ WF_vars(RespondAny(1))
    /\ WF_vars(AbortedContinue(1))

\* ------------------------------------------------------------------------
\* The hosting application
\* ------------------------------------------------------------------------
\* the responses the host model draws from: a text in every slot (a request
\* that is aborted rejects, see HostAbortedContinue; the other outcomes of a
\* request are those of Outcomes, explored in Spec)
HostOutcomes(r, m) ==
    { [kind |-> "json", translations |-> [j \in 1..m |-> SlotValue("text", r, j)]] }

HostInit ==
    /\ ServiceInit
    /\ hostKind \in {"single", "loop"}
    /\ HostStateInit
    /\ LibIdle

\* the handler of job j runs from world w0 to its next suspension: the next
\* call (batch b), then what follows it if it settled at once
RunFrom(w0, j, b) ==
    \E w1 \in {NextCall(w0, j, b)} :
        \E w2 \in {IF w1.jobs[j].pc = "stopped" THEN EndJob(w1, j, "stopped")
                   ELSE Conclude(w1, j)} :
            Become(w2)

\* the user picks a language: handleBulkTranslate; the Translate button is
\* disabled while isLoading. The host that tracks sessions first awaits
\* startSession
TranslateClick(j) ==
    /\ ~MicrotaskPending
    /\ ~isLoading
    /\ jobs[j].pc = "none"
    /\ \A k \in 1..(j - 1) : jobs[k].pc # "none"
    /\ \E w0 \in {EnterJob(World, j)} :
          IF hostKind = "single"
          THEN Become([w0 EXCEPT !.sessionId = j, !.jobs[j].pc = "session"])
          ELSE \E w1 \in {Collect(w0, j)} : RunFrom(w1, j, 0)

\* the user clicks Stop Translation, shown while isLoading; the host that
\* tracks sessions awaits stopSession before cancelTranslation()
StopClick ==
    /\ ~MicrotaskPending
    /\ isLoading
    /\ \E w1 \in {StopJob(World)} :
          IF hostKind = "single" /\ sessionId # 0
          THEN Become([w1 EXCEPT !.stops = @ + 1, !.jobs[sessionId].stopSent = TRUE])
          ELSE Become([w1 EXCEPT !.translationCancelled = TRUE,
                                 !.calls = CancelCalls(w1.calls)])

\* the stopSession request of a handleStopTranslation settles:
\* setSessionId(null); cancelTranslation()
StopResumed ==
    /\ ~MicrotaskPending
    /\ stops > 0
    /\ stops' = stops - 1
    /\ sessionId' = 0
    /\ translationCancelled' = TRUE
    /\ calls' = CancelCalls(calls)
    /\ UNCHANGED <<apiKeyOk, contentCache, aborted, hostKind, excelData,
                   isLoading, isTranslationStopped, ctlCurrent, jobs>>
    /\ UNCHANGED libVars

\* the startSession request of job j settles
SessionStarted(j) ==
    /\ ~MicrotaskPending
    /\ jobs[j].pc = "session"
    /\ \E w1 \in {Collect(World, j)} : RunFrom(w1, j, 0)

\* the stopSession request of job j settles: setSessionId(null), then the
\* toast and the finally block
SessionStopped(j) ==
    /\ ~MicrotaskPending
    /\ jobs[j].pc = "stopping"
    /\ \E w \in {World} :
          Become(EndJob([w EXCEPT !.sessionId = 0], j,
                        IF jobs[j].after = "success" THEN "success"
                        ELSE ToastFor(jobs[j].caught)))

\* the 500 ms delay between two batches of job j ends
TimerFired(j) ==
    /\ ~MicrotaskPending
    /\ jobs[j].pc = "delay"
    /\ \E w \in {World} : RunFrom(w, j, jobs[j].batchIndex + 1)

\* job j's request settles with resp: the call goes on to its next request
\* or settles, and then the handler goes on to its next suspension
SettleWith(j, resp) ==
    \E w1 \in {HostSettle(World, j, resp)} :
        \E w2 \in {Conclude(w1, j)} : Become(w2)

\* the request in flight of job j's call settles
HostRespond(j) ==
    /\ ~MicrotaskPending
    /\ jobs[j].pc = "call"
    /\ calls[j].pc = "pending" /\ calls[j].req = "inflight"
    /\ \E resp \in HostOutcomes(BatchNo(calls[j]), Len(BatchOf(calls[j]))) :
          SettleWith(j, resp)

\* the aborted request of job j's call rejects
HostAbortedContinue(j) ==
    /\ jobs[j].pc = "call"
    /\ calls[j].pc = "pending" /\ calls[j].req = "aborted"
    /\ SettleWith(j, ErrorResponse)

HostNext ==
    \/ \E j \in JobIds : TranslateClick(j)
    \/ StopClick
    \/ StopResumed
    \/ \E j \in JobIds : SessionStarted(j)
    \/ \E j \in JobIds : SessionStopped(j)
    \/ \E j \in JobIds : TimerFired(j)
    \/ \E j \in JobIds : HostRespond(j)
    \/ \E j \in JobIds : HostAbortedContinue(j)

HostSpec == HostInit /\ [][HostNext]_vars

\* ------------------------------------------------------------------------
\* An LRUCache instance under get, set and clear
\* ------------------------------------------------------------------------
LruKeys == 1..MaxKeys
LruValues == { <<1>>, <<2>> }

\* the use made of the keys so far, least recently used first: key moves to
\* the end
Touch(used, key) == SelectSeq(used, LAMBDA k : k # key) \o <<key>>

\* new LRUCache(maxSize)
CacheInit ==
    /\ ServiceInit
    /\ hostKind = "none"
    /\ HostStateInit
    /\ applied = [op |-> "none"]
    /\ \E m \in 1..MaxCap :
          lruCache = [maxSize |-> m, cache |-> <<>>, used |-> <<>>,
                      last |-> [op |-> "new"]]

\* cache.get(key)
CacheGet(key) ==
    /\ lruCache' =
          [lruCache EXCEPT
              !.cache = LRUGet(lruCache.cache, key).cache,
              !.used = IF CacheHas(lruCache.cache, key) THEN Touch(@, key) ELSE @,
              !.last = [op |-> "get", key |-> key,
                        hit |-> CacheHas(lruCache.cache, key),
                        result |-> LRUGet(lruCache.cache, key).value,
                        before |-> lruCache.cache, usedBefore |-> lruCache.used]]
    /\ UNCHANGED <<apiKeyOk, translationCancelled, contentCache, aborted, calls, applied>>
    /\ UNCHANGED hostVars

\* cache.set(key, value)
CacheSet(key, value) ==
    /\ lruCache' =
          [lruCache EXCEPT
              !.cache = LRUSet(lruCache.cache, lruCache.maxSize, key, value),
              !.used = Touch(@, key),
              !.last = [op |-> "set", key |-> key,
                        hit |-> CacheHas(lruCache.cache, key),
                        result |-> value,
                        before |-> lruCache.cache, usedBefore |-> lruCache.used]]
    /\ UNCHANGED <<apiKeyOk, translationCancelled, contentCache, aborted, calls, applied>>
    /\ UNCHANGED hostVars

\* cache.clear()
CacheClear ==
    /\ lruCache.cache # <<>>
    /\ lruCache' =
          [lruCache EXCEPT
              !.cache = LRUClear(lruCache.cache),
              !.used = <<>>,
              !.last = [op |-> "clear"]]
    /\ UNCHANGED <<apiKeyOk, translationCancelled, contentCache, aborted, calls, applied>>
    /\ UNCHANGED hostVars

CacheGetAny == \E key \in LruKeys : CacheGet(key)

CacheSetAny == \E key \in LruKeys, value \in LruValues : CacheSet(key, value)

CacheNext == CacheGetAny \/ CacheSetAny \/ CacheClear

CacheSpec == CacheInit /\ [][CacheNext]_vars

\* ------------------------------------------------------------------------
\* The grid: ingestion, cell edits and deletes, rehydration
\* ------------------------------------------------------------------------
\* rows of a worksheet as XLSX.utils.sheet_to_json(header: 1, defval: '',
\* raw: false) returns them: strings, every row as wide as the sheet's range
SheetRows ==
    { << <<>>, Str(<<"a", "b", "c">>) >>,
      << Str(<<"a", "b", "c">>), Str(<<" ", "1", "2">>) >>,
      << <<>>, <<>> >>,
      << Str(<<" ", "a", "b", "c">>), Str(<<" ">>) >> }

Sheets == UNION { [1..n -> SheetRows] : n \in 1..MaxRows }

\* filteredData: the rows with a cell that is not ''
FilteredRows(sheet) ==
    SelectSeq(sheet, LAMBDA row : \E c \in 1..Len(row) : row[c] # <<>>)

\* columnsWithData: the columns, out of those of the first row, in which
\* some row holds a non-blank cell
ColumnsWithData(rows) ==
    IF rows = <<>> THEN <<>>
    ELSE SelectSeq([c \in 1..Len(rows[1]) |-> c],
                   LAMBDA c : \E r \in 1..Len(rows) :
                                 rows[r][c] # <<>> /\ Trim(rows[r][c]) # <<>>)

\* processedData of rows restricted to the columns cols
ProcessRows(rows, cols) ==
    [r \in 1..Len(rows) |-> [k \in 1..Len(cols) |-> processCell(rows[r][cols[k]])]]

\* parseExcelFile(file).data
parseExcelFile(sheet) ==
    ProcessRows(FilteredRows(sheet), ColumnsWithData(FilteredRows(sheet)))

\* the guard of handleCellEdit / handleCellDelete:
\* newData[rowIndex] && newData[rowIndex][colIndex]
CellExists(data, r, c) == r \in 1..Len(data) /\ c \in 1..Len(data[r])

\* handleCellEdit assigning the cell whether or not it exists
EditCell_NoGuard(data, r, c, newValue) ==
    IF r \in 1..Len(data) /\ c >= 1
    THEN [data EXCEPT ![r] =
             IF c \in 1..Len(data[r])
             THEN [@ EXCEPT ![c] = [@ EXCEPT !.cleaned = newValue, !.original = newValue,
                                            !.isEmpty = (newValue = <<>> \/ Trim(newValue) = <<>>)]]
             ELSE Append(@, [original |-> newValue, cleaned |-> newValue,
                             isEmpty |-> (newValue = <<>> \/ Trim(newValue) = <<>>)])]
    ELSE data

\* handleCellEdit(rowIndex, colIndex, newValue)
EditCell(data, r, c, newValue) ==
    IF CellExists(data, r, c)
    THEN [data EXCEPT ![r][c] =
             [@ EXCEPT !.cleaned = newValue, !.original = newValue,
                       !.isEmpty = (newValue = <<>> \/ Trim(newValue) = <<>>)]]
    ELSE data

\* handleCellDelete clearing the texts without setting the flag
DeleteCell_KeepFlag(data, r, c) ==
    IF CellExists(data, r, c)
    THEN [data EXCEPT ![r][c] = [@ EXCEPT !.cleaned = <<>>, !.original = <<>>]]
    ELSE data

\* handleCellDelete(rowIndex, colIndex)
DeleteCell(data, r, c) ==
    IF CellExists(data, r, c)
    THEN [data EXCEPT ![r][c] =
             [@ EXCEPT !.cleaned = <<>>, !.original = <<>>, !.isEmpty = TRUE]]
    ELSE data

\* texts typed into a cell
EditValues == { Str(<<" ">>), Str(<<" ", "a", "b", "c">>) }

\* row and column indexes passed to the handlers: in range, and one below
\* and one above the range
RowIndexes(data) == 0..(Len(data) + 1)
ColIndexes(data) == 0..(IF data = <<>> THEN 1 ELSE Len(data[1]) + 1)

\* the translations of uniqueContent a job may obtain: for each item a text
\* of the service, or nothing (the item falls back to its content)
TranslationsFor(unique) ==
    { [k \in 1..Len(unique) |-> IF k \in ks THEN Tr(1, k) ELSE <<>>] :
          ks \in SUBSET (1..Len(unique)) }

Shape(data) == [r \in 1..Len(data) |-> Len(data[r])]

\* no file loaded
GridInit ==
    /\ ServiceInit
    /\ hostKind = "none"
    /\ HostStateInit
    /\ LibIdle

GridUnchanged ==
    UNCHANGED <<apiKeyOk, translationCancelled, contentCache, aborted, calls, hostKind,
                isLoading, isTranslationStopped, sessionId, ctlCurrent, jobs, stops,
                lruCache>>

\* handleFileUpload: setExcelData(parsedData.data)
FileUpload(sheet) ==
    /\ applied.op = "none"
    /\ excelData' = parseExcelFile(sheet)
    /\ applied' = [op |-> "parse", sheet |-> sheet, shape |-> Shape(parseExcelFile(sheet)),
                   ops |-> 0, before |-> <<>>, filtered |-> FALSE, unique |-> <<>>,
                   translations |-> <<>>]
    /\ GridUnchanged

\* handleCellEdit
CellEdit(r, c, newValue) ==
    /\ applied.op # "none" /\ applied.ops < MaxOps
    /\ excelData' = EditCell(excelData, r, c, newValue)
    /\ applied' = [applied EXCEPT !.op = "edit", !.ops = @ + 1, !.before = <<>>,
                                  !.unique = <<>>, !.translations = <<>>]
    /\ GridUnchanged

\* handleCellDelete
CellDelete(r, c) ==
    /\ applied.op # "none" /\ applied.ops < MaxOps
    /\ excelData' = DeleteCell(excelData, r, c)
    /\ applied' = [applied EXCEPT !.op = "delete", !.ops = @ + 1, !.before = <<>>,
                                  !.unique = <<>>, !.translations = <<>>]
    /\ GridUnchanged

\* handleBulkTranslate from the collection of uniqueContent to setExcelData,
\* for the translations its call returned; filtered is TRUE for the host
\* that applies the content filter
Rehydrate(filtered, translations) ==
    /\ applied.op # "none" /\ applied.ops < MaxOps
    /\ excelData' = ApplyTranslations(excelData, CollectUnique(excelData, filtered),
                                      translations)
    /\ applied' = [applied EXCEPT !.op = "rehydrate", !.ops = @ + 1,
                                  !.before = excelData, !.filtered = filtered,
                                  !.unique = CollectUnique(excelData, filtered),
                                  !.translations = translations]
    /\ GridUnchanged

FileUploadAny == \E sheet \in Sheets : FileUpload(sheet)

CellEditAny ==
    \E r \in RowIndexes(excelData), c \in ColIndexes(excelData), v \in EditValues :
        CellEdit(r, c, v)

CellDeleteAny ==
    \E r \in RowIndexes(excelData), c \in ColIndexes(excelData) : CellDelete(r, c)

RehydrateAny ==
    \E filtered \in BOOLEAN :
        \E translations \in TranslationsFor(CollectUnique(excelData, filtered)) :
            Rehydrate(filtered, translations)

GridNext == FileUploadAny \/ CellEditAny \/ CellDeleteAny \/ RehydrateAny

GridSpec == GridInit /\ [][GridNext]_vars

\* ------------------------------------------------------------------------
\* cleanContentForTranslation over the module's contentCache
\* ------------------------------------------------------------------------
\* contents to clean: an entity, white space, an escaped tag, no content, and
\* two texts of the same length that differ after the key's prefix
CleanInputs ==
    { Str(<<"x", "&", "a", "m", "p", ";", "y">>),
      Str(<<"a", " ", " ", "b">>),
      Str(<<"&", "l", "t", ";", "b", "&", "g", "t", ";">>),
      <<>>,
      Str(<<"a", "b", "c", "d", "e", "f", "g", "h">>),
      Str(<<"a", "b", "c", "d", "e", "f", "g", "x">>) }

CleanInit ==
    /\ ServiceInit
    /\ hostKind = "none"
    /\ HostStateInit
    /\ LibIdle

\* cleanContentForTranslation(content)
CleanOne(content) ==
    /\ contentCache' = cleanContentForTranslation(content, contentCache).cache
    /\ applied' = [op |-> "clean", content |-> content,
                   value |-> cleanContentForTranslation(content, contentCache).value,
                   cached |-> CacheHas(contentCache, CleanCacheKey(content))]
    /\ UNCHANGED <<apiKeyOk, translationCancelled, aborted, calls, lruCache>>
    /\ UNCHANGED hostVars

CleanAny == \E content \in CleanInputs : CleanOne(content)

\* clearCaches()
ClearCaches ==
    /\ contentCache # <<>>
    /\ contentCache' = LRUClear(contentCache)
    /\ UNCHANGED <<apiKeyOk, translationCancelled, aborted, calls, lruCache, applied>>
    /\ UNCHANGED hostVars

CleanNext == CleanAny \/ ClearCaches

CleanSpec == CleanInit /\ [][CleanNext]_vars

\* ------------------------------------------------------------------------
\* Properties of translateBatchStructured
\* ------------------------------------------------------------------------
Terminal(c) == calls[c].pc \in {"returned", "thrown"}

\* batch number (1-based) and slot (1-based) of input index k
BatchNoOf(k) == ((k - 1) \div BATCH_SIZE) + 1
SlotOf(k) == ((k - 1) % BATCH_SIZE) + 1

\* the input indexes of the batch settled last in call record cl
LastSettled(cl) ==
    IF cl.lastResp.kind = "none" THEN {}
    ELSE (cl.i - BATCH_SIZE + 1)..Min(cl.i, Len(cl.cleanedContent))

\* C1: whenever translateBatchStructured returns, the returned array has as
\* many entries as the input list, and entry k belongs to input item k: it is
\* the cleaned (possibly truncated) text of item k, or the text the service
\* returned at item k's slot of item k's batch.
C1_LengthAndAlignment ==
    \A c \in CallIds :
        calls[c].pc = "returned" =>
            /\ Len(calls[c].allTranslations) = Len(calls[c].contentArray)
            /\ \A k \in 1..Len(calls[c].contentArray) :
                  calls[c].allTranslations[k] \in
                      {calls[c].cleaned[k], Truncate(calls[c].cleaned[k]),
                       Tr(BatchNoOf(k), SlotOf(k))}

\* a call over more than one batch returned, one batch failed and another
\* holds a translation
C1_Witness ==
    \E c \in CallIds :
        /\ calls[c].pc = "returned"
        /\ Len(calls[c].contentArray) > BATCH_SIZE
        /\ calls[c].failed # {}
        /\ \E k \in 1..Len(calls[c].contentArray) :
              calls[c].allTranslations[k] = Tr(BatchNoOf(k), SlotOf(k))

\* C2: reconciliation is per slot: in a batch whose request succeeded (and
\* was not cancelled), a slot holding a non-blank text is output as that text
\* and every other slot as the pre-cleaned original, whatever the other slots
\* of the response hold.
C2_PerSlotReconcile ==
    \A c \in CallIds :
        LET cl == calls[c]
            tr == cl.lastResp.translations
        IN (cl.lastResp.kind = "json" /\ ~cl.cancelReq) =>
              \A k \in LastSettled(cl) :
                  LET j == k - (cl.i - BATCH_SIZE)
                  IN IF j <= Len(tr) /\ tr[j].t = "string" /\ Trim(tr[j].v) # <<>>
                     THEN cl.allTranslations[k] = tr[j].v
                     ELSE cl.allTranslations[k] = cl.cleanedContent[k]

\* C3: when the request of a batch errors, every output entry of that batch
\* is the original content of the item at the same index (as given or as
\* cleaned), never a shortened or different text.
C3_FailureKeepsOriginal ==
    \A c \in CallIds :
        \A k \in 1..Len(calls[c].allTranslations) :
            (BatchNoOf(k) \in calls[c].failed) =>
                calls[c].allTranslations[k] \in
                    {calls[c].contentArray[k], calls[c].cleaned[k]}

\* C5: a call during which cancellation was requested never returns an array.
C5_CancelNeverReturns ==
    \A c \in CallIds : calls[c].cancelReq => calls[c].pc # "returned"

\* the step settles the request in flight of call c
Settles(c) ==
    /\ calls[c].pc = "pending"
    /\ calls'[c].lastResp # NoResponse
    /\ Len(calls'[c].allTranslations) = Len(calls[c].allTranslations) + Len(BatchOf(calls[c]))

\* cancellation is visible to call c
Cancelled(c) == translationCancelled \/ SignalAborted(calls[c], aborted)

\* C4: batch failure is isolated.  A step that settles a batch never changes
\* the entries of the batches before it; when the request erred and nothing
\* was cancelled the job is not aborted: the call returns if that was the
\* last batch and otherwise dispatches the next request; and after a failed
\* batch a later batch answered with a text in every slot still contributes
\* exactly those texts.
C4_FailureIsolated ==
    [][ \A c \in CallIds :
          Settles(c) =>
            LET old == calls[c]
                new == calls'[c]
                n == Len(old.allTranslations)
                tr == new.lastResp.translations
            IN /\ SubSeq(new.allTranslations, 1, n) = old.allTranslations
               /\ (new.lastResp.kind = "error" /\ ~Cancelled(c)) =>
                     /\ new.pc # "thrown"
                     /\ BatchNo(old) \in new.failed
                     /\ IF old.i + BATCH_SIZE < Len(old.cleanedContent)
                        THEN /\ new.pc = "pending" /\ new.req = "inflight"
                             /\ new.dispatched = old.dispatched + 1
                             /\ new.i = old.i + BATCH_SIZE
                        ELSE new.pc = "returned"
               /\ (/\ old.failed # {} /\ ~Cancelled(c)
                   /\ new.lastResp.kind = "json"
                   /\ Len(tr) >= Len(BatchOf(old))
                   /\ \A j \in 1..Len(BatchOf(old)) : tr[j] = JStr(Tr(BatchNo(old), j))) =>
                     \A j \in 1..Len(BatchOf(old)) :
                        new.allTranslations[n + j] = Tr(BatchNo(old), j)
      ]_vars

\* the first batch erred, the second was answered with texts and the call
\* returned them
C4_Witness ==
    \E c \in CallIds :
        /\ calls[c].pc = "returned"
        /\ 1 \in calls[c].failed
        /\ Len(calls[c].contentArray) > BATCH_SIZE
        /\ \A k \in (BATCH_SIZE + 1)..Len(calls[c].contentArray) :
              calls[c].allTranslations[k] = Tr(BatchNoOf(k), SlotOf(k))
        /\ \A k \in 1..BATCH_SIZE : calls[c].allTranslations[k] = calls[c].cleanedContent[k]

\* C9: Idle -> Running -> {Completed | Cancelled | Failed}.  With every
\* request eventually settled a running call reaches a terminal outcome, a
\* terminal outcome is final, and the only error a call raises is the
\* cancellation error, raised only when cancellation is visible: a batch
\* whose request erred never makes the call fail.
C9_Terminates ==
    /\ \A c \in CallIds : (calls[c].pc = "pending") ~> Terminal(c)
    /\ [][ \A c \in CallIds : Terminal(c) => calls'[c] = calls[c] ]_vars
    /\ [](\A c \in CallIds :
            calls[c].pc = "thrown" =>
                /\ calls[c].err = CancelledError
                /\ Cancelled(c))

\* a call ended Completed although one of its batches erred
C9_Witness ==
    \E c \in CallIds :
        /\ calls[c].pc = "returned"
        /\ calls[c].failed # {}
        /\ calls[c].dispatched > 1

\* ------------------------------------------------------------------------
\* Properties of the hosting application
\* ------------------------------------------------------------------------
\* C6: once Stop Translation has been clicked while a job runs, that job
\* dispatches no further translation request, neither from inside
\* translateBatchStructured nor from the host's per-batch loop.
C6_NoDispatchAfterCancel ==
    [][ hostKind = "loop" =>
          \A j \in JobIds :
              jobs[j].cancelled => jobs'[j].requests = jobs[j].requests ]_vars

\* the cells of job j's grid that hold item k of its uniqueContent
CellsOf(j, k) ==
    { rc \in (1..Len(jobs[j].cData)) \X (1..GridCols) :
          Trim(jobs[j].cData[rc[1]][rc[2]].cleaned) = jobs[j].uniqueContent[k] }

\* C7: completed batches are not rolled back: when a job over three batches
\* is stopped after its first batch was answered with translations, and its
\* call raised the cancellation error, the items of batch 1 are translated
\* in the outcome (the grid).
C7_CompletedBatchesKept ==
    \A j \in JobIds :
        (/\ hostKind = "single"
         /\ jobs[j].pc = "done" /\ jobs[j].cancelled
         /\ calls[j].pc = "thrown" /\ calls[j].err = CancelledError
         /\ Len(jobs[j].uniqueContent) > 2 * BATCH_SIZE
         /\ Len(calls[j].allTranslations) >= BATCH_SIZE
         /\ \A k \in 1..BATCH_SIZE : calls[j].allTranslations[k] = Tr(1, k))
        => \A k \in 1..BATCH_SIZE :
              \A rc \in CellsOf(j, k) : excelData[rc[1]][rc[2]].cleaned = Tr(1, k)

\* C8: a job that ended because the user stopped it (its call raised the
\* cancellation error) took the host's cancellation branch ('Translation
\* cancelled'), not its failure branch ('Translation failed: ...').
C8_CancelSurfacedDistinctly ==
    \A j \in JobIds :
        (jobs[j].pc = "done" /\ jobs[j].cancelled /\ jobs[j].caught = CancelledError)
        => jobs[j].toast = "cancelled"

\* C10: the host serializes translation jobs: at most one job is in flight at
\* any time, whatever the sequence of Translate and Stop Translation clicks.
C10_JobsSerialized ==
    hostKind = "single" => Cardinality({ j \in JobIds : InFlight(jobs[j]) }) <= 1

\* ------------------------------------------------------------------------
\* Properties of LRUCache
\* ------------------------------------------------------------------------
\* C11: a cache built with maxSize >= 1 never stores more than maxSize
\* entries, whatever the sequence of get, set and clear.
C11_CapacityBound ==
    lruCache.maxSize >= 1 => Len(lruCache.cache) <= lruCache.maxSize

\* a new key was set into a full cache
C11_Witness ==
    /\ lruCache.last.op = "set" /\ ~lruCache.last.hit
    /\ Len(lruCache.last.before) = lruCache.maxSize
    /\ Len(lruCache.cache) = lruCache.maxSize

KeysOf(cache) == { cache[k].key : k \in 1..Len(cache) }

\* the key of keys whose most recent access is the oldest
Oldest(used, keys) ==
    used[CHOOSE i \in 1..Len(used) :
            /\ used[i] \in keys
            /\ \A k \in 1..(i - 1) : used[k] \notin keys]

\* C12: set of a new key into a full cache evicts exactly one entry, the one
\* whose most recent get-hit or set is the oldest; set of a present key and
\* set below capacity evict nothing; a get that hits returns the stored
\* value, keeps the entries, and makes its key the most recently used.
C12_EvictsLeastRecentlyUsed ==
    /\ (lruCache.last.op = "set" /\ ~lruCache.last.hit
            /\ Len(lruCache.last.before) >= lruCache.maxSize) =>
          /\ KeysOf(lruCache.last.before) \ KeysOf(lruCache.cache) =
                 { Oldest(lruCache.last.usedBefore, KeysOf(lruCache.last.before)) }
          /\ KeysOf(lruCache.cache) \ KeysOf(lruCache.last.before) = { lruCache.last.key }
    /\ (lruCache.last.op = "set" /\ lruCache.last.hit) =>
          KeysOf(lruCache.cache) = KeysOf(lruCache.last.before)
    /\ (lruCache.last.op = "set" /\ ~lruCache.last.hit
            /\ Len(lruCache.last.before) < lruCache.maxSize) =>
          KeysOf(lruCache.cache) = KeysOf(lruCache.last.before) \cup { lruCache.last.key }
    /\ (lruCache.last.op = "get" /\ lruCache.last.hit) =>
          /\ \E k \in 1..Len(lruCache.last.before) :
                lruCache.last.before[k] = [key |-> lruCache.last.key,
                                           value |-> lruCache.last.result]
          /\ { lruCache.cache[k] : k \in 1..Len(lruCache.cache) } =
                 { lruCache.last.before[k] : k \in 1..Len(lruCache.last.before) }
    /\ lruCache.last.op \in {"get", "set"} /\ lruCache.cache # <<>> =>
          [k \in 1..Len(lruCache.cache) |-> lruCache.cache[k].key] =
              SelectSeq(lruCache.used, LAMBDA x : x \in KeysOf(lruCache.cache))

\* a set evicted an entry that was not the one inserted first: the entry
\* inserted first had been read since
C12_Witness ==
    /\ lruCache.last.op = "set" /\ ~lruCache.last.hit
    /\ Len(lruCache.last.before) = lruCache.maxSize
    /\ lruCache.maxSize >= 2
    /\ lruCache.last.before[Len(lruCache.last.before)].key < lruCache.last.before[1].key
    /\ lruCache.last.before[Len(lruCache.last.before)].key \in KeysOf(lruCache.cache)

\* ------------------------------------------------------------------------
\* Properties of normalization
\* ------------------------------------------------------------------------
\* C13: memoization is transparent: every call cleanContentForTranslation(x)
\* returns the uncached normalization of x, whatever was cleaned before.
C13_MemoTransparent ==
    applied.op = "clean" => applied.value = CleanUncached(applied.content)

\* ------------------------------------------------------------------------
\* Normalization applied to a text and to its own output
\* ------------------------------------------------------------------------
\* pieces of cell text: plain characters, entities, tags, and the halves an
\* entity is written in when its ampersand is itself escaped
Tokens ==
    { Str(<<"&", "a", "m", "p", ";">>), Str(<<"l", "t", ";">>),
      Str(<<"&", "l", "t", ";">>), Str(<<"b", "&", "g", "t", ";">>),
      Str(<<"<", "b", ">">>), Str(<<"a">>), Str(<<" ">>),
      Str(<<"&", "#", "3", "8", ";">>), Str(<<"#", "6", "0", ";">>),
      Str(<<"&", "#", "x", "2", "6", ";">>) }

RECURSIVE Join(_)
Join(pieces) == IF pieces = <<>> THEN <<>> ELSE pieces[1] \o Join(Tail(pieces))

NormInputs == { Join(pieces) : pieces \in UNION { [1..n -> Tokens] : n \in 0..MaxTokens } }

NormInit ==
    /\ ServiceInit
    /\ hostKind = "none"
    /\ HostStateInit
    /\ lruCache = [maxSize |-> 0, cache |-> <<>>, used |-> <<>>, last |-> [op |-> "none"]]
    /\ \E x \in NormInputs : applied = [op |-> "input", x |-> x]

NormUnchanged ==
    UNCHANGED <<apiKeyOk, translationCancelled, contentCache, aborted, calls, hostKind,
                excelData, isLoading, isTranslationStopped, sessionId, ctlCurrent, jobs,
                stops, lruCache>>

\* processCell(x) and cleanContentForTranslation(x) on a cold cache
Normalize ==
    /\ applied.op = "input"
    /\ applied' = [op |-> "normalized", x |-> applied.x,
                   cell |-> processCell(applied.x).cleaned,
                   service |-> CleanUncached(applied.x)]
    /\ NormUnchanged

\* the same functions applied to the cleaned text they returned
Renormalize ==
    /\ applied.op = "normalized"
    /\ applied' = [op |-> "renormalized", x |-> applied.x,
                   cell |-> applied.cell, service |-> applied.service,
                   cellAgain |-> processCell(applied.cell).cleaned,
                   serviceAgain |-> CleanUncached(applied.service)]
    /\ NormUnchanged

NormNext == Normalize \/ Renormalize

NormSpec == NormInit /\ [][NormNext]_vars

\* ------------------------------------------------------------------------
\* Properties of the grid
\* ------------------------------------------------------------------------
GridLoaded == applied.op \in {"parse", "edit", "delete", "rehydrate"}

\* C14: once a file is ingested, cell edits, cell deletes (whatever their
\* indexes) and rehydrations leave the number of rows and the number of
\* columns of every row as ingestion produced them.
C14_ShapeInvariant == GridLoaded => Shape(excelData) = applied.shape

\* an edit, a delete or a rehydration has acted, twice, on a grid that has
\* cells
C14_Witness ==
    /\ applied.op \in {"edit", "delete", "rehydrate"}
    /\ applied.ops = MaxOps
    /\ excelData # <<>> /\ excelData[1] # <<>>

\* the cells of a grid, as <<row, column>>
Positions(data) ==
    UNION { { <<r, c>> : c \in 1..Len(data[r]) } : r \in 1..Len(data) }

\* the value the translation map holds for uniqueContent[k]
MappedValue(k) ==
    IF applied.translations[k] # <<>> THEN applied.translations[k] ELSE applied.unique[k]

\* C15: after a rehydration, every cell whose trimmed cleaned text was a key
\* of the translation map holds the value mapped to that key, as its cleaned
\* and as its original text; cells that shared a key hold the same value.
C15_MapsByFingerprint ==
    applied.op = "rehydrate" =>
        \A p \in Positions(applied.before) : \A k \in 1..Len(applied.unique) :
            Trim(applied.before[p[1]][p[2]].cleaned) = applied.unique[k] =>
                /\ excelData[p[1]][p[2]].cleaned = MappedValue(k)
                /\ excelData[p[1]][p[2]].original = MappedValue(k)

\* two cells at different positions shared a key, their original texts
\* differed, and the key was mapped to a translation
C15_Witness ==
    /\ applied.op = "rehydrate"
    /\ \E p, q \in Positions(applied.before) : \E k \in 1..Len(applied.unique) :
          /\ p # q
          /\ Trim(applied.before[p[1]][p[2]].cleaned) = applied.unique[k]
          /\ Trim(applied.before[q[1]][q[2]].cleaned) = applied.unique[k]
          /\ applied.before[p[1]][p[2]].original # applied.before[q[1]][q[2]].original
          /\ applied.translations[k] # <<>>
          /\ excelData[p[1]][p[2]] = excelData[q[1]][q[2]]

\* a cell that needs no translation: blank, or holding content the content
\* filter excludes
NeedsNoTranslation(cell, filtered) ==
    \/ cell.cleaned = <<>>
    \/ Trim(cell.cleaned) = <<>>
    \/ filtered /\ ~NeedsTranslation(Trim(cell.cleaned))

\* C16: a rehydration leaves the original and the cleaned text of every cell
\* that needs no translation as they were.
C16_UntranslatedCellsKept ==
    applied.op = "rehydrate" =>
        \A p \in Positions(applied.before) :
            NeedsNoTranslation(applied.before[p[1]][p[2]], applied.filtered) =>
                /\ excelData[p[1]][p[2]].original = applied.before[p[1]][p[2]].original
                /\ excelData[p[1]][p[2]].cleaned = applied.before[p[1]][p[2]].cleaned

\* p comes before q in row-major order
RowMajorBefore(p, q) == p[1] < q[1] \/ (p[1] = q[1] /\ p[2] < q[2])

\* the cells of data whose trimmed cleaned text is x
Occurrences(data, x) ==
    { p \in Positions(data) : Trim(data[p[1]][p[2]].cleaned) = x }

\* the trimmed non-empty cleaned values of data that are eligible
Eligible(data, filtered) ==
    { Trim(data[p[1]][p[2]].cleaned) : p \in Positions(data) } \
        { x \in { Trim(data[p[1]][p[2]].cleaned) : p \in Positions(data) } :
              x = <<>> \/ (filtered /\ ~NeedsTranslation(x)) }

\* x occurs in data before y occurs at all
FirstOccursBefore(data, x, y) ==
    \E p \in Occurrences(data, x) : \A q \in Occurrences(data, y) : RowMajorBefore(p, q)

\* C17: the list collected from a grid has no duplicates, holds exactly the
\* trimmed non-empty cleaned values that are eligible, in the order of their
\* first occurrence by rows, and collecting again from the same grid gives
\* the same list.
C17_DedupFirstOccurrence ==
    applied.op = "rehydrate" =>
        /\ \A i, j \in 1..Len(applied.unique) : i # j => applied.unique[i] # applied.unique[j]
        /\ { applied.unique[k] : k \in 1..Len(applied.unique) }
              = Eligible(applied.before, applied.filtered)
        /\ \A i, j \in 1..Len(applied.unique) :
              i < j => FirstOccursBefore(applied.before, applied.unique[i], applied.unique[j])
        /\ CollectUnique(applied.before, applied.filtered) = applied.unique

\* a grid with two distinct values, the first of them repeated, under
\* another raw text, after the second one
C17_Witness ==
    /\ applied.op = "rehydrate"
    /\ Len(applied.unique) >= 2
    /\ \E p, q \in Occurrences(applied.before, applied.unique[1]) :
          /\ applied.before[p[1]][p[2]].cleaned # applied.before[q[1]][q[2]].cleaned
          /\ \E m \in Occurrences(applied.before, applied.unique[2]) :
                RowMajorBefore(p, m) /\ RowMajorBefore(m, q)

\* the content filter has left a non-blank value out of the list
C17_WitnessFiltered ==
    /\ applied.op = "rehydrate" /\ applied.filtered
    /\ Eligible(applied.before, FALSE) # Eligible(applied.before, TRUE)
    /\ applied.unique # <<>>

\* C18: in every grid the program reaches, by ingestion, cell edits, cell
\* deletes and rehydrations, a cell is flagged isEmpty exactly when its
\* trimmed cleaned text is empty.
C18_IsEmptyIffBlank ==
    GridLoaded =>
        \A p \in Positions(excelData) :
            excelData[p[1]][p[2]].isEmpty <=> (Trim(excelData[p[1]][p[2]].cleaned) = <<>>)

\* after edits, deletes or rehydrations the grid holds a cell flagged empty
\* whose cleaned text is blank without being empty, next to a cell that a
\* rehydration has written
C18_Witness ==
    /\ applied.op = "rehydrate" /\ applied.ops = MaxOps
    /\ \E p, q \in Positions(excelData) :
          /\ excelData[p[1]][p[2]].isEmpty /\ excelData[p[1]][p[2]].cleaned # <<>>
          /\ ~excelData[q[1]][q[2]].isEmpty
          /\ excelData[q[1]][q[2]] # applied.before[q[1]][q[2]]

\* ------------------------------------------------------------------------
\* Properties of normalization applied twice
\* ------------------------------------------------------------------------
\* C19: normalizing the cleaned text of any input again gives that cleaned
\* text back, for the cell normalizer and for the service's normalizer, also
\* when decoding one entity of the input spells another entity or a tag.
C19_Idempotent ==
    applied.op = "renormalized" =>
        /\ applied.cellAgain = applied.cell
        /\ applied.serviceAgain = applied.service

\* the cell normalizer alone
C19_CellIdempotent == applied.op = "renormalized" => applied.cellAgain = applied.cell

\* the service's normalizer alone
C19_ServiceIdempotent ==
    applied.op = "renormalized" => applied.serviceAgain = applied.service

\* ------------------------------------------------------------------------
\* Properties of ingestion
\* ------------------------------------------------------------------------
\* index (from 1) of the last non-blank cell of a row, 0 for a blank row
LastNonBlank(row) ==
    IF \A c \in 1..Len(row) : Trim(row[c]) = <<>> THEN 0
    ELSE CHOOSE c \in 1..Len(row) :
             /\ Trim(row[c]) # <<>>
             /\ \A k \in (c + 1)..Len(row) : Trim(row[k]) = <<>>

\* the effective column count of a sheet
EffectiveColumns(sheet) ==
    IF sheet = <<>> THEN 0
    ELSE CHOOSE n \in 0..Len(sheet[1]) :
             /\ \A r \in 1..Len(sheet) : LastNonBlank(sheet[r]) <= n
             /\ \E r \in 1..Len(sheet) : LastNonBlank(sheet[r]) = n

\* C20: every row of the grid ingestion produces has as many columns as the
\* sheet's effective column count (the largest index of a last non-blank
\* cell, plus one, counting from 0), and the cell at each of these columns is
\* the sheet's cell at that column.
C20_EffectiveColumnCount ==
    applied.op = "parse" =>
        \A r \in 1..Len(excelData) :
            /\ Len(excelData[r]) = EffectiveColumns(applied.sheet)
            /\ \A c \in 1..Len(excelData[r]) :
                  excelData[r][c].original = FilteredRows(applied.sheet)[r][c]

\* ------------------------------------------------------------------------
\* analyzeDataset
\* ------------------------------------------------------------------------
\* row[k]?.cleaned || '', for the JS index k - 1
CellText(row, k) == IF k \in 1..Len(row) THEN row[k].cleaned ELSE <<>>

Question(row) == CellText(row, 3)

Variants(row) == <<CellText(row, 4), CellText(row, 6), CellText(row, 8), CellText(row, 10)>>

Codes(row) == <<CellText(row, 5), CellText(row, 7), CellText(row, 9), CellText(row, 11)>>

\* filter(v => v && v.trim() !== '')
NonBlank(texts) == SelectSeq(texts, LAMBDA v : v # <<>> /\ Trim(v) # <<>>)

\* validCodes
ValidCodes(row) ==
    SelectSeq(NonBlank(Codes(row)), LAMBDA c : c = Str(<<"0">>) \/ c = Str(<<"1">>))

\* correctAnswers
CorrectAnswers(row) == Len(SelectSeq(ValidCodes(row), LAMBDA c : c = Str(<<"1">>)))

HasQuestion(row) == Question(row) # <<>> /\ Trim(Question(row)) # <<>>

HasMissingVariants(row) == Len(NonBlank(Variants(row))) < 4

\* uniqueVariants.size < nonEmptyVariants.length
HasDuplicateVariants(row) ==
    \E i, j \in 1..Len(NonBlank(Variants(row))) :
        i # j /\ NonBlank(Variants(row))[i] = NonBlank(Variants(row))[j]

HasInvalidCodes(row) == Len(ValidCodes(row)) # Len(NonBlank(Codes(row)))

HasNoCorrectAnswer(row) == CorrectAnswers(row) = 0 /\ Len(NonBlank(Codes(row))) > 0

\* the test with 'at least one' for 'more than one'
HasMultipleCorrect_AtLeastOne(row) == CorrectAnswers(row) >= 1

HasMultipleCorrect(row) == CorrectAnswers(row) > 1

Issue(r, type, severity) == [row |-> r, type |-> type, severity |-> severity]

IssueIf(cond, r, type, severity) == IF cond THEN <<Issue(r, type, severity)>> ELSE <<>>

\* the entries one pass of the forEach body pushes to detailedIssues
RowIssues(row, r) ==
    IF ~HasQuestion(row) THEN <<Issue(r, "Empty Question", "high")>>
    ELSE IssueIf(HasMissingVariants(row), r, "Missing Variants", "medium")
         \o IssueIf(HasDuplicateVariants(row), r, "Duplicate Variants", "medium")
         \o IssueIf(HasInvalidCodes(row), r, "Invalid Answer Codes", "high")
         \o IssueIf(HasNoCorrectAnswer(row), r, "No Correct Answer", "high")
         \o IssueIf(HasMultipleCorrect(row), r, "Multiple Correct Answers", "medium")

\* detailedIssues after the rows r..data.length
RECURSIVE DetailedIssues(_, _)
DetailedIssues(data, r) ==
    IF r > Len(data) THEN <<>> ELSE RowIssues(data[r], r) \o DetailedIssues(data, r + 1)

Asked(data) == { r \in 1..Len(data) : HasQuestion(data[r]) }

Statistics(data) ==
    [questionsWithAllVariants |->
         Cardinality({ r \in Asked(data) : ~HasMissingVariants(data[r]) }),
     questionsWithCorrectAnswer |->
         Cardinality({ r \in Asked(data) : CorrectAnswers(data[r]) > 0 }),
     questionsWithMissingVariants |->
         Cardinality({ r \in Asked(data) : HasMissingVariants(data[r]) }),
     questionsWithInvalidCodes |->
         Cardinality({ r \in Asked(data) : HasInvalidCodes(data[r]) }),
     questionsWithEmptyContent |-> Len(data) - Cardinality(Asked(data)),
     questionsWithDuplicateVariants |->
         Cardinality({ r \in Asked(data) : HasDuplicateVariants(data[r]) }),
     questionsWithHTML |->
         Cardinality({ r \in Asked(data) : 3 <= Len(data[r]) /\ data[r][3].hasHtml }),
     questionsWithEntities |->
         Cardinality({ r \in Asked(data) : 3 <= Len(data[r]) /\ data[r][3].hasEntities })]

\* dataQuality: highSeverityIssues > totalQuestions * 0.1, else
\* totalIssues > totalQuestions * 0.2
DataQuality(issues, totalQuestions) ==
    IF Len(SelectSeq(issues, LAMBDA i : i.severity = "high")) * 10 > totalQuestions
    THEN "poor"
    ELSE IF Len(issues) * 10 > totalQuestions * 2 THEN "fair"
    ELSE "good"

analyzeDataset(data) ==
    IF data = <<>>
    THEN [totalQuestions |-> 0, dataQuality |-> "No data", detailedIssues |-> <<>>,
          statistics |-> Statistics(<<>>)]
    ELSE [totalQuestions |-> Len(data),
          dataQuality |-> DataQuality(DetailedIssues(data, 1), Len(data)),
          detailedIssues |-> DetailedIssues(data, 1),
          statistics |-> Statistics(data)]

\* a row of the fixed schema: two leading columns, the question, and four
\* pairs of variant and code
Record(question, variants, codes) ==
    << Cell(Str(<<"1">>)), Cell(<<>>), Cell(question),
       Cell(variants[1]), Cell(codes[1]), Cell(variants[2]), Cell(codes[2]),
       Cell(variants[3]), Cell(codes[3]), Cell(variants[4]), Cell(codes[4]) >>

FourVariants == <<Str(<<"a">>), Str(<<"b">>), Str(<<"c">>), Str(<<"d">>)>>
NoTexts == << <<>>, <<>>, <<>>, <<>> >>

\* the kinds of record of the datasets analysed: a complete record; a record
\* without variants and codes; a record with two codes 1; a record without a
\* question whose codes hold two 1; a record whose only code is 2; a row
\* that ends after a question, with a blank variant
RecordKinds ==
    << Record(Str(<<"a", "b", "c">>), FourVariants,
              <<Str(<<"1">>), Str(<<"0">>), Str(<<"0">>), Str(<<"0">>)>>),
       Record(Str(<<"a", "b", "c">>), NoTexts, NoTexts),
       Record(Str(<<"a", "b", "c">>), FourVariants,
              <<Str(<<"1">>), Str(<<"1">>), Str(<<"0">>), Str(<<"0">>)>>),
       Record(<<>>, FourVariants,
              <<Str(<<"1">>), Str(<<"1">>), Str(<<"0">>), Str(<<"0">>)>>),
       Record(Str(<<"a", "b", "c">>), FourVariants,
              <<Str(<<"2">>), <<>>, <<>>, <<>>>>),
       << Cell(Str(<<"1">>)), Cell(<<>>), Cell(Str(<<"a", "b", "c">>)), Cell(Str(<<" ">>)) >> >>

KindOf(row) == CHOOSE k \in 1..Len(RecordKinds) : RecordKinds[k] = row

\* no record yet
AnalysisInit ==
    /\ ServiceInit
    /\ hostKind = "none"
    /\ excelData = <<>>
    /\ isLoading = FALSE
    /\ isTranslationStopped = FALSE
    /\ sessionId = 0
    /\ ctlCurrent = 0
    /\ jobs = [j \in JobIds |-> NoJob]
    /\ stops = 0
    /\ LibIdle

AnalysisUnchanged ==
    UNCHANGED <<apiKeyOk, translationCancelled, contentCache, aborted, calls, hostKind,
                isLoading, isTranslationStopped, sessionId, ctlCurrent, jobs, stops,
                lruCache>>

\* one more record in the grid handed to the analysis; the records of a
\* kind are adjacent (the analysis of a row reads that row only)
AddRecord(k) ==
    /\ applied.op = "none"
    /\ Len(excelData) < MaxRecords
    /\ IF excelData = <<>> THEN TRUE ELSE KindOf(excelData[Len(excelData)]) <= k
    /\ excelData' = Append(excelData, RecordKinds[k])
    /\ UNCHANGED applied
    /\ AnalysisUnchanged

\* analyzeDataset(excelData)
Analyze ==
    /\ applied.op = "none"
    /\ applied' = [op |-> "analyze", report |-> analyzeDataset(excelData)]
    /\ UNCHANGED excelData
    /\ AnalysisUnchanged

AddRecordAny == \E k \in 1..Len(RecordKinds) : AddRecord(k)

AnalysisNext == AddRecordAny \/ Analyze

AnalysisSpec == AnalysisInit /\ [][AnalysisNext]_vars

\* ------------------------------------------------------------------------
\* Properties of analyzeDataset
\* ------------------------------------------------------------------------
QuestionPresent(row) == Trim(CellText(row, 3)) # <<>>

\* the number of non-empty variants of a record
VariantCount(row) == Cardinality({ k \in {4, 6, 8, 10} : Trim(CellText(row, k)) # <<>> })

\* the number of codes of a record that equal 1
OnesCount(row) == Cardinality({ k \in {5, 7, 9, 11} : CellText(row, k) = Str(<<"1">>) })

\* the rows for which the report holds an issue of a type
RowsWithIssue(report, type) ==
    { report.detailedIssues[i].row :
          i \in { n \in 1..Len(report.detailedIssues) : report.detailedIssues[n].type = type } }

MissingVariantsAgree ==
    applied.report.statistics.questionsWithMissingVariants =
        Cardinality({ r \in 1..Len(excelData) :
                          QuestionPresent(excelData[r]) /\ VariantCount(excelData[r]) < 4 })

RowsWithHighIssue(report) ==
    { report.detailedIssues[i].row :
          i \in { n \in 1..Len(report.detailedIssues) :
                      report.detailedIssues[n].severity = "high" } }

\* C22: the report's tier is 'poor' exactly when more than 10% of the
\* records have a high-severity issue, each such record counted once.
C22_PoorIffTenthOfRecords ==
    (applied.op = "analyze" /\ excelData # <<>>) =>
        (applied.report.dataQuality = "poor"
            <=> Cardinality(RowsWithHighIssue(applied.report)) * 10 > Len(excelData))

\* ------------------------------------------------------------------------
\* translateBatchStructured without an API key, called again and again
\* ------------------------------------------------------------------------
NoKeyContents == Contents \cup { Str(<<"a", "b", "c", "d", "e", "f", "g", "x">>) }

NoKeyArrays == UNION { [1..n -> NoKeyContents] : n \in 0..MaxItems }

\* REACT_APP_OPENAI_API_KEY unset, or the placeholder
NoKeyInit ==
    /\ ServiceInit
    /\ ~apiKeyOk
    /\ hostKind = "none"
    /\ HostStateInit
    /\ LibIdle

\* translateBatchStructured(arr) by a caller whose previous call returned
InvokeAgain(arr) ==
    /\ calls[1].pc = "returned"
    /\ calls' = [calls EXCEPT ![1] = StartCall(arr, 0, apiKeyOk, contentCache, aborted).call]
    /\ contentCache' = StartCall(arr, 0, apiKeyOk, contentCache, aborted).cache
    /\ translationCancelled' = FALSE
    /\ UNCHANGED <<apiKeyOk, aborted>>
    /\ UNCHANGED hostVars
    /\ UNCHANGED libVars

NoKeyInvoke == \E arr \in NoKeyArrays : Invoke(arr, 0)

NoKeyInvokeAgain == \E arr \in NoKeyArrays : InvokeAgain(arr)

NoKeyNext == NoKeyInvoke \/ NoKeyInvokeAgain \/ ClearCaches

NoKeySpec == NoKeyInit /\ [][NoKeyNext]_vars

\* ------------------------------------------------------------------------
\* Properties of translateBatchStructured without an API key
\* ------------------------------------------------------------------------
\* C23: without a usable API key translateBatchStructured sends no request
\* and returns an array as long as its input whose entry at every index is
\* the cleaned content of the input item at that index.
C23_NoKeyReturnsCleaned ==
    (~apiKeyOk /\ calls[1].pc # "idle") =>
        /\ calls[1].pc = "returned"
        /\ calls[1].dispatched = 0 /\ calls[1].req = "none"
        /\ Len(calls[1].allTranslations) = Len(calls[1].contentArray)
        /\ \A k \in 1..Len(calls[1].contentArray) :
              calls[1].allTranslations[k] = CleanUncached(calls[1].contentArray[k])

\* ------------------------------------------------------------------------
\* Properties of the batch loop of translateBatchStructured
\* ------------------------------------------------------------------------
\* the number of input items the batches 1..k cover
ItemsThrough(cl, k) == Min(k * BATCH_SIZE, Len(cl.cleanedContent))

\* C24: the batches of a call are processed one after another: while a
\* request is outstanding it is the only one, namely the request dispatched
\* last, and the batches of all requests dispatched before it have been
\* reconciled into the output; when no request is outstanding in a call that
\* has an API key, the batches of all requests dispatched have been.
C24_BatchesSequential ==
    \A c \in CallIds :
        /\ calls[c].req # "none" =>
              /\ calls[c].pc = "pending"
              /\ calls[c].dispatched >= 1
              /\ Len(calls[c].allTranslations) = ItemsThrough(calls[c], calls[c].dispatched - 1)
              /\ calls[c].i = (calls[c].dispatched - 1) * BATCH_SIZE
        /\ (calls[c].req = "none" /\ apiKeyOk) =>
              Len(calls[c].allTranslations) = ItemsThrough(calls[c], calls[c].dispatched)

\* the request of a second batch is outstanding after the request of the
\* first batch failed
C24_Witness ==
    \E c \in CallIds :
        /\ calls[c].pc = "pending" /\ calls[c].req = "inflight"
        /\ calls[c].dispatched = 2
        /\ calls[c].failed = {1}

\* the batches of the requests k..Len(sent), one after another
RECURSIVE SentFrom(_, _)
SentFrom(sent, k) == IF k > Len(sent) THEN <<>> ELSE sent[k].batch \o SentFrom(sent, k + 1)

\* C25: a call with an API key that returns has split its n items into
\* consecutive batches of at most BATCH_SIZE items in input order, every
\* item in exactly one batch, and has sent exactly one request per batch,
\* ceil(n / BATCH_SIZE) in all, whether or not a batch failed.
C25_Partition ==
    \A c \in CallIds :
        (calls[c].pc = "returned" /\ apiKeyOk) =>
            /\ calls[c].dispatched = Len(calls[c].sent)
            /\ Len(calls[c].sent) * BATCH_SIZE >= Len(calls[c].contentArray)
            /\ (Len(calls[c].sent) - 1) * BATCH_SIZE < Len(calls[c].contentArray)
                  \/ Len(calls[c].contentArray) = 0
            /\ \A k \in 1..Len(calls[c].sent) :
                  /\ Len(calls[c].sent[k].batch) \in 1..BATCH_SIZE
                  /\ calls[c].sent[k].from = Len(SentFrom(calls[c].sent, 1))
                                                - Len(SentFrom(calls[c].sent, k))
            /\ SentFrom(calls[c].sent, 1) = calls[c].cleanedContent
            /\ Len(calls[c].cleanedContent) = Len(calls[c].contentArray)

\* a call over more items than one batch holds, not a multiple of
\* BATCH_SIZE, returned after the request of its first batch failed
C25_Witness ==
    \E c \in CallIds :
        /\ calls[c].pc = "returned" /\ apiKeyOk
        /\ Len(calls[c].contentArray) > BATCH_SIZE
        /\ Len(calls[c].contentArray) % BATCH_SIZE # 0
        /\ 1 \in calls[c].failed
        /\ calls[c].dispatched = 2

\* ------------------------------------------------------------------------
\* Properties of the cleaned text of a cell
\* ------------------------------------------------------------------------
\* s holds a substring that starts with '<' and ends with '>'
HasTagLike(s) == \E i, j \in 1..Len(s) : i < j /\ s[i] = Ord["<"] /\ s[j] = Ord[">"]

\* C26: the cleaned text processCell produces holds no tag-like substring
\* <...>, also when the brackets of the tag were written as entities in the
\* cell.
C26_CleanedHasNoTag ==
    applied.op \in {"normalized", "renormalized"} => ~HasTagLike(applied.cell)

\* ------------------------------------------------------------------------
\* Cell edits and deletes while translation jobs run
\* ------------------------------------------------------------------------
\* the host that tracks sessions, a file loaded
EditInit ==
    /\ ServiceInit
    /\ hostKind = "single"
    /\ HostStateInit
    /\ LibIdle

\* the cell the user edits, the text typed, the cell the user deletes
EditTarget == <<1, 1>>
TypedValue == Str(<<"y", "e", "s">>)
DeleteTarget == <<2, 1>>

\* the jobs the user starts around the edit: one before it, one more before
\* or after it
EditJobs == {1, 2}

EditUnchanged ==
    UNCHANGED <<apiKeyOk, translationCancelled, contentCache, aborted, calls, hostKind,
                isLoading, isTranslationStopped, sessionId, ctlCurrent, jobs, stops,
                lruCache>>

\* handleSave of the table: handleCellEdit(r, c, newValue); the loading
\* overlay lets pointer events through, so the table is editable while a
\* job runs
HostCellEdit(r, c, newValue) ==
    /\ ~MicrotaskPending
    /\ applied.op = "none"
    /\ excelData' = EditCell(excelData, r, c, newValue)
    /\ applied' = [op |-> "edit", r |-> r, c |-> c, value |-> newValue,
                   during |-> { j \in JobIds : InFlight(jobs[j]) }]
    /\ EditUnchanged

\* handleCellDelete(r, c)
HostCellDelete(r, c) ==
    /\ ~MicrotaskPending
    /\ applied.op = "none"
    /\ excelData' = DeleteCell(excelData, r, c)
    /\ applied' = [op |-> "delete", r |-> r, c |-> c, value |-> <<>>,
                   during |-> { j \in JobIds : InFlight(jobs[j]) }]
    /\ EditUnchanged

EditNext ==
    \/ \E j \in EditJobs : TranslateClick(j)
    \/ StopClick
    \/ StopResumed
    \/ \E j \in EditJobs : SessionStarted(j)
    \/ \E j \in EditJobs : SessionStopped(j)
    \/ \E j \in EditJobs : HostRespond(j)
    \/ \E j \in EditJobs : HostAbortedContinue(j)
    \/ HostCellEdit(EditTarget[1], EditTarget[2], TypedValue)
    \/ HostCellDelete(DeleteTarget[1], DeleteTarget[2])

EditSpec == EditInit /\ [][EditNext]_vars

\* C27: a cell edit or delete committed while a translation job is in flight
\* is still in the grid once that job has completed: as long as no job was
\* started after the edit or delete, the cell holds what the edit or delete
\* wrote.
C27_EditSurvivesJob ==
    (/\ applied.op \in {"edit", "delete"}
     /\ \A k \in JobIds \ applied.during : jobs[k].pc = "none") =>
        /\ excelData[applied.r][applied.c].cleaned = applied.value
        /\ excelData[applied.r][applied.c].original = applied.value

\* an edit or delete was committed while a job was in flight and that job
\* has completed with its translations applied
C27_Reached ==
    /\ applied.op \in {"edit", "delete"}
    /\ \E j \in applied.during : jobs[j].pc = "done" /\ jobs[j].toast = "success"

\* ------------------------------------------------------------------------
\* translateBatchLegacy and translateBatch: batches of adaptive size
\* ------------------------------------------------------------------------
LEGACY_BATCH_SIZE == 60
LEGACY_MAX_REQUEST_SIZE == 15000
PLAIN_BATCH_SIZE == 50
PLAIN_MAX_REQUEST_SIZE == 12000
MAX_CONTENT_LENGTH == 2000

LegacyFunctions == {"translateBatchLegacy", "translateBatch"}

\* let BATCH_SIZE = ...
StartSize(fn) == IF fn = "translateBatchLegacy" THEN LEGACY_BATCH_SIZE ELSE PLAIN_BATCH_SIZE

MaxRequestSize(fn) ==
    IF fn = "translateBatchLegacy" THEN LEGACY_MAX_REQUEST_SIZE ELSE PLAIN_MAX_REQUEST_SIZE

\* an input item is represented by the length of its cleaned text; the
\* length of cleaned.length > MAX_CONTENT_LENGTH
\*               ? cleaned.substring(0, MAX_CONTENT_LENGTH) + '...' : cleaned
TruncatedLength(n) == IF n > MAX_CONTENT_LENGTH THEN MAX_CONTENT_LENGTH + 3 ELSE n

CleanedLengths == {3, 5000}

LegacyArrays == UNION { [1..n -> CleanedLengths] : n \in 0..MaxLegacyItems }

RECURSIVE SumOf(_)
SumOf(ns) == IF ns = <<>> THEN 0 ELSE ns[1] + SumOf(Tail(ns))

\* cleanedContent.join('\n').length of contentArray.slice(i, i + size)
RequestSize(lens, i, size) ==
    IF i >= Len(lens) THEN 0
    ELSE SumOf([k \in 1..(Min(i + size, Len(lens)) - i) |-> TruncatedLength(lens[i + k])])
         + (Min(i + size, Len(lens)) - i) - 1

\* Math.floor(BATCH_SIZE * 0.7)
ReducedSize(size) == (size * 7) \div 10

\* the retry without `i -= BATCH_SIZE`: the loop's increment skips ahead
RetryIndex_NoRewind(i, size) == i

\* i -= BATCH_SIZE, with the reduced BATCH_SIZE
RetryIndex(i, size) == i - size

LegacyThrown(st) == [st EXCEPT !.pc = "thrown"]

\* from the loop's test to the next suspension: return, raise the
\* cancellation error (translateBatchLegacy only), shrink the batch and go
\* round again, or dispatch the request of the batch at i
RECURSIVE LegacyLoop(_, _)
LegacyLoop(st, flag) ==
    IF st.i >= Len(st.lens) THEN [st EXCEPT !.pc = "returned"]
    ELSE IF st.fn = "translateBatchLegacy" /\ flag THEN LegacyThrown(st)
    ELSE IF RequestSize(st.lens, st.i, st.size) > MaxRequestSize(st.fn)
    THEN LegacyLoop([st EXCEPT !.size = ReducedSize(st.size),
                               !.i = RetryIndex(st.i, ReducedSize(st.size))
                                        + ReducedSize(st.size),
                               !.retries = Append(@, [i |-> st.i, size |-> st.size])],
                    flag)
    ELSE [st EXCEPT !.pc = "pending",
                    !.handled = Append(@, [i |-> st.i, size |-> st.size,
                                           n |-> Min(st.i + st.size, Len(st.lens)) - st.i])]

\* a call of fn on an array of items of these cleaned lengths, before it runs
LegacyCall(fn, lens) ==
    [op |-> "legacy", fn |-> fn, lens |-> lens, pc |-> "start",
     size |-> StartSize(fn), i |-> 0,
     \* history: the start index and size of every batch judged too
     \* large, and of every batch sent
     retries |-> <<>>, handled |-> <<>>]

\* a key configured, no call made yet
LegacyInit ==
    /\ ServiceInit
    /\ apiKeyOk
    /\ hostKind = "none"
    /\ HostStateInit
    /\ lruCache = [maxSize |-> 0, cache |-> <<>>, used |-> <<>>, last |-> [op |-> "none"]]
    /\ applied = [op |-> "none"]

LegacyUnchanged ==
    UNCHANGED <<apiKeyOk, translationCancelled, contentCache, aborted, calls, hostKind,
                excelData, isLoading, isTranslationStopped, sessionId, ctlCurrent, jobs,
                stops, lruCache>>

\* fn(contentArray, ...) runs to its first suspension
LegacyStart(fn, lens) ==
    /\ applied.op = "none"
    /\ applied' = LegacyLoop(LegacyCall(fn, lens), translationCancelled)
    /\ LegacyUnchanged

\* the request of the current batch settles: the translations, or in the
\* catch the cleaned batch, are pushed; i += BATCH_SIZE; on to the next
\* suspension
LegacySettle ==
    /\ applied.op = "legacy"
    /\ applied.pc = "pending"
    /\ applied' = LegacyLoop([applied EXCEPT !.i = @ + applied.size], translationCancelled)
    /\ LegacyUnchanged

\* cancelTranslation(), before the call or while it runs
LegacyCancel ==
    /\ IF applied.op = "none" THEN TRUE ELSE applied.pc = "pending"
    /\ ~translationCancelled
    /\ translationCancelled' = TRUE
    /\ UNCHANGED <<apiKeyOk, contentCache, aborted, calls, hostKind, excelData, isLoading,
                   isTranslationStopped, sessionId, ctlCurrent, jobs, stops, lruCache,
                   applied>>

LegacyStartAny == \E fn \in LegacyFunctions, lens \in LegacyArrays : LegacyStart(fn, lens)

LegacyNext == LegacyStartAny \/ LegacySettle \/ LegacyCancel

\* a request settles: axios resolves or rejects every request
LegacySpec == LegacyInit /\ [][LegacyNext]_vars /\ WF_vars(LegacySettle)

LegacyRunning == applied.op = "legacy"

LegacyDone == LegacyRunning /\ applied.pc \in {"returned", "thrown"}

\* the batches sent so far follow one another from the first item on,
\* none of them empty
HandledInOrder ==
    \A k \in 1..Len(applied.handled) :
        /\ applied.handled[k].n >= 1
        /\ applied.handled[k].i =
              IF k = 1 THEN 0 ELSE applied.handled[k - 1].i + applied.handled[k - 1].n

\* every batch judged too large was followed by a batch sent from the same
\* start index with a smaller size
RetriedInPlace ==
    \A k \in 1..Len(applied.retries) :
        \E h \in 1..Len(applied.handled) :
            /\ applied.handled[h].i = applied.retries[k].i
            /\ applied.handled[h].size < applied.retries[k].size

HandledAll ==
    IF applied.handled = <<>> THEN applied.lens = <<>>
    ELSE applied.handled[Len(applied.handled)].i + applied.handled[Len(applied.handled)].n
            = Len(applied.lens)

\* C28: a call of translateBatchLegacy or translateBatch ends; its batch
\* size never reaches 0; a batch judged too large is retried from the same
\* start index with the smaller size; and when the call returns every item
\* of the input was in exactly one batch, the batches in input order.
C28_AdaptiveBatchesTerminate ==
    /\ [](LegacyRunning => /\ applied.size >= 1
                            /\ RetriedInPlace
                            /\ HandledInOrder
                            /\ (applied.pc = "returned" => HandledAll))
    /\ (LegacyRunning ~> LegacyDone)

C28_Witness ==
    /\ applied.op = "legacy"
    /\ applied.pc = "returned"
    /\ Len(applied.retries) >= 2
    /\ Len(applied.handled) >= 2

\* ------------------------------------------------------------------------
\* Sessions of the host
\* ------------------------------------------------------------------------
\* job j started a session and its handler has left
SessionJobDone(j) == hostKind = "single" /\ jobs[j].pc = "done"

\* C29: once a job of the host that tracks sessions has completed, failed or
\* been stopped, a /api/session/stop request naming the session it started
\* has been sent.
C29_SessionStopped == \A j \in JobIds : SessionJobDone(j) => jobs[j].stopSent

\* a job whose session was stopped (by the Stop button) does occur
C29_StoppedReached ==
    \E j \in JobIds : SessionJobDone(j) /\ jobs[j].stopSent /\ jobs[j].cancelled

\* ------------------------------------------------------------------------
\* setModel of the two services
\* ------------------------------------------------------------------------
Services == {"optimizedAiService", "aiService"}

\* Object.keys(OPTIMIZED_MODELS.TRANSLATION), Object.keys(MODELS.TRANSLATION)
TranslationModels(service) ==
    IF service = "optimizedAiService"
    THEN {"gpt-3.5-turbo-16k", "gpt-4o", "gpt-5-mini", "gpt-5", "gpt-5-nano"}
    ELSE {"gpt-4o", "gpt-4-turbo", "gpt-3.5-turbo-16k", "gpt-3.5-turbo"}

\* Object.keys(OPTIMIZED_MODELS.ANALYSIS), Object.keys(MODELS.ANALYSIS)
AnalysisModels(service) ==
    IF service = "optimizedAiService"
    THEN {"gpt-5-mini", "gpt-5-nano"}
    ELSE {"gpt-4o", "gpt-4-turbo", "gpt-3.5-turbo"}

\* let DEFAULT_TRANSLATION_MODEL = ..., let DEFAULT_ANALYSIS_MODEL = ...
DefaultModel(service) == IF service = "optimizedAiService" THEN "gpt-5-mini" ELSE "gpt-4o"

\* the tables are object literals: table[modelId] also finds the
\* properties every object inherits from Object.prototype
InheritedKeys == {"constructor", "toString"}

\* table[modelId] is truthy
Found(keys, modelId) == modelId \in keys \/ modelId \in InheritedKeys

TaskNames == {"translation", "analysis", "summary"}

ModelIds == {"gpt-4o", "gpt-5-mini", "gpt-3.5-turbo", "gpt-4", "constructor", "toString"}

\* setModel(task, modelId) on the selections sel of a service
setModel(sel, task, modelId) ==
    IF task = "translation" /\ Found(TranslationModels(sel.service), modelId)
    THEN [sel EXCEPT !.translation = modelId]
    ELSE IF task = "analysis" /\ Found(AnalysisModels(sel.service), modelId)
    THEN [sel EXCEPT !.analysis = modelId]
    ELSE sel

\* one of the two modules, freshly loaded
ModelInit ==
    /\ ServiceInit
    /\ hostKind = "none"
    /\ HostStateInit
    /\ lruCache = [maxSize |-> 0, cache |-> <<>>, used |-> <<>>, last |-> [op |-> "none"]]
    /\ \E service \in Services :
          applied = [op |-> "models", service |-> service,
                     translation |-> DefaultModel(service),
                     analysis |-> DefaultModel(service),
                     \* history: the last call and the selections before it
                     task |-> "", modelId |-> "", before |-> <<>>]

SetModel(task, modelId) ==
    /\ applied.op = "models"
    /\ applied' = [setModel(applied, task, modelId) EXCEPT
                      !.task = task, !.modelId = modelId,
                      !.before = <<applied.translation, applied.analysis>>]
    /\ UNCHANGED <<apiKeyOk, translationCancelled, contentCache, aborted, calls, hostKind,
                   excelData, isLoading, isTranslationStopped, sessionId, ctlCurrent, jobs,
                   stops, lruCache>>

ModelNext == \E task \in TaskNames, modelId \in ModelIds : SetModel(task, modelId)

ModelSpec == ModelInit /\ [][ModelNext]_vars

\* the last call named a task and a model of that task's table
KnownSelection ==
    \/ applied.task = "translation" /\ applied.modelId \in TranslationModels(applied.service)
    \/ applied.task = "analysis" /\ applied.modelId \in AnalysisModels(applied.service)

\* C30: after any calls of setModel the current translation model and the
\* current analysis model are keys of their tables, and a call with an
\* unknown task or model id left both selections as they were.
C30_SelectionsAreTableKeys ==
    /\ applied.translation \in TranslationModels(applied.service)
    /\ applied.analysis \in AnalysisModels(applied.service)
    /\ (applied.before # <<>> /\ ~KnownSelection
           => applied.before = <<applied.translation, applied.analysis>>)

\* calls with an unknown task, and with a model of the other table, do occur
C30_Reached ==
    /\ applied.op = "models"
    /\ applied.task = "translation"
    /\ applied.modelId = "gpt-3.5-turbo"
    /\ applied.service = "optimizedAiService"
    /\ applied.before = <<applied.translation, applied.analysis>>

====
